---- MODULE Spec2Model ----
(***************************************************************************)
(* Model of the recoil-jotai-guard impact engine and its coverage-first    *)
(* writer pipeline:                                                        *)
(*   impact.ts           analyzeAtomImpact (direct usages, coverage merge, *)
(*                       transitive BFS, summary)                          *)
(*   graph.ts            buildDependencyGraph                              *)
(*   setter-bindings.ts  buildSetterBindings and its helpers               *)
(*   setter-callsites.ts collectRuntimeWriteCallsites                      *)
(*   collect-usages.ts   collectUsages                                     *)
(*   resolve.ts          resolveUsages                                     *)
(* State names are naturals in the graph families and identifiers in the   *)
(* program family; file:line and file:name keys are pairs.                 *)
(***************************************************************************)
EXTENDS Naturals, Integers, Sequences, FiniteSets, TLC

VARIABLES
    graph,            \* DependencyGraph: definitions, dependentSelectors, componentUsages
    atomName,         \* the target of analyzeAtomImpact
    coverageOptions,  \* CoverageOptions record, or Undefined (legacy mode)
    pc,               \* position inside analyzeAtomImpact / the pipeline
    queue,            \* BFS queue of {selectorName, depth}
    visited,          \* BFS visited set
    transitive,       \* BFS output list
    result,           \* ImpactResult, Null, Threw or Pending
    program,          \* the scanned source files (abstract syntax)
    cursor,           \* index of the next declarator buildSetterBindings visits
    setterBindings,   \* SetterBindingMap: <<file, identifier>> -> atom name
    wrapperCache,     \* wrapper memo: <<file, line>> -> binding or Null
    parsedFileCache,  \* module-level parse cache: file -> parsed file or Null
    analysisLog,      \* per run of buildSetterBindings, the wrapper keys whose return was analysed
    resolvedFactoryKeys, \* set of <<file, line>>
    runtimeCallsites, \* output of collectRuntimeWriteCallsites
    extraction,       \* ExtractionResult: recoilDefinitions, jotaiDefinitions, jotaiImports
    collected,        \* the Usage list handed to resolveUsages
    resolution,       \* the ResolvedUsage list built so far
    violations,       \* the Violation list of runChecks
    exitCode,         \* the exit code of the check command, or Pending
    targetDir,        \* the directory argument of the check command
    previous          \* the value an earlier call in the same process returned, or Pending

vars == <<graph, atomName, coverageOptions, pc, queue, visited, transitive,
          result, program, cursor, setterBindings, wrapperCache,
          parsedFileCache, analysisLog,
          resolvedFactoryKeys, runtimeCallsites, extraction, collected, resolution,
          violations, exitCode, targetDir, previous>>

impactVars == <<queue, visited, transitive, result, previous>>
pipelineVars == <<program, cursor, setterBindings, wrapperCache,
                  parsedFileCache, analysisLog,
                  resolvedFactoryKeys, runtimeCallsites>>
stageVars == <<extraction, collected, resolution, violations, exitCode, targetDir>>

----------------------------------------------------------------------------
(* Bounds of the checked input families *)

ChainLen == 7
CoreMax == 2
MaxExtra == 2
MaxUsages == 3
MaxCallsites == 2
MaxDeclarators == 2
MaxCalls == 2
MaxHops == 7
MaxResolveUsages == 2
MaxCycleFiles == 3
MaxGraphUsages == 3
MaxStatements == 2
MaxSites == 3
MaxRuns == 2

(* Program constants *)

maxDepth == 5
maxChainDepth == 5

(* JavaScript's undefined / null and the outcomes of a call *)

Undefined == [undefined |-> TRUE]
Null == [null |-> TRUE]
Threw == [threw |-> TRUE]
Pending == [pending |-> TRUE]

----------------------------------------------------------------------------
(* Generic helpers *)

\* Map.get: the value stored under key, or undefined
MapGet(map, key) == IF key \in DOMAIN map THEN map[key] ELSE Undefined

\* Map.set on a function
MapSet(map, key, value) ==
    [k \in DOMAIN map \cup {key} |-> IF k = key THEN value ELSE map[k]]

\* Array.prototype.filter for a usage list by usage type
FilterType(usages, type) == SelectSeq(usages, LAMBDA u : u.type = type)

\* the set of elements of a list
Range(seq) == {seq[i] : i \in DOMAIN seq}

\* the concatenation of a sequence of sequences
RECURSIVE Flatten(_)
Flatten(seqs) == IF seqs = <<>> THEN <<>> ELSE Head(seqs) \o Flatten(Tail(seqs))

\* all lists over S of length at most n
SeqsUpTo(S, n) == UNION {[1..k -> S] : k \in 0..n}

----------------------------------------------------------------------------
(* impact.ts: analyzeAtomImpact *)

\* the not-found guard left out
IsMissingNoGuard(definition) == FALSE

\* `if (!definition)`: the lookup found nothing
IsMissing(definition) == definition = Undefined

\* graph.componentUsages.get(name) ?? []
UsagesOf(g, name) ==
    IF name \in DOMAIN g.componentUsages THEN g.componentUsages[name] ELSE <<>>

\* graph.dependentSelectors.get(name) ?? new Set(), in Set insertion order
DependentsOf(g, name) ==
    IF name \in DOMAIN g.dependentSelectors
    THEN g.dependentSelectors[name] ELSE <<>>

\* runtimeCallsites.filter((c) => c.atomName === atomName)
RuntimeForAtom(opts, name) ==
    SelectSeq(opts.runtimeCallsites, LAMBDA c : c.atomName = name)

\* a runtime callsite converted to a ResolvedUsage entry
RuntimeUsage(c, definition) ==
    [atomName |-> c.atomName, localName |-> c.calleeName, type |-> "setter",
     hook |-> "setter call", file |-> c.file, line |-> c.line,
     resolvedName |-> c.atomName, definitionFile |-> definition.file,
     writerKind |-> "runtime"]

\* `${f.file}:${f.line}`
FactoryKey(f) == <<f.file, f.line>>

\* every factory setter kept, resolved or not
IsUnresolvedFactoryKeepsAll(f, keys) == TRUE

\* the filter that keeps a factory setter as a fallback entry
IsUnresolvedFactory(f, keys) == FactoryKey(f) \notin keys

\* {...f, writerKind: 'fallback'}
TagFallback(f) == [writerKind |-> "fallback"] @@ f

FallbackSetters(factorySetters, keys) ==
    LET kept == SelectSeq(factorySetters, LAMBDA f : IsUnresolvedFactory(f, keys))
    IN  [i \in 1..Len(kept) |-> TagFallback(kept[i])]

\* runtimeForAtom.map(...)
RuntimeUsages(opts, name, definition) ==
    LET runtimeForAtom == RuntimeForAtom(opts, name)
    IN  [i \in 1..Len(runtimeForAtom) |-> RuntimeUsage(runtimeForAtom[i], definition)]

\* setters = [...runtimeUsages, ...fallbackSetters]
MergeSetters(runtimeUsages, fallbackSetters) == runtimeUsages \o fallbackSetters

\* the legacy branch tagging its entries like the coverage branch
SettersLegacyTagged(g, name, opts, definition) ==
    LET factorySetters == FilterType(UsagesOf(g, name), "setter") IN
    IF opts # Undefined
    THEN MergeSetters(
             RuntimeUsages(opts, name, definition),
             FallbackSetters(factorySetters, opts.resolvedFactoryKeys))
    ELSE FallbackSetters(factorySetters, {})

\* the write list: coverage merge, or the factory setters in legacy mode
Setters(g, name, opts, definition) ==
    LET factorySetters == FilterType(UsagesOf(g, name), "setter") IN
    IF opts # Undefined
    THEN MergeSetters(
             RuntimeUsages(opts, name, definition),
             FallbackSetters(factorySetters, opts.resolvedFactoryKeys))
    ELSE factorySetters

\* variant: the visited set outlives the call
KeptVisited == visited

\* `const visited = new Set<string>()`
NewVisited == {}

\* variant: only the first direct dependent is seeded
SeedQueueFirstOnly(g, name) ==
    LET direct == DependentsOf(g, name)
    IN  [i \in 1..(IF direct = <<>> THEN 0 ELSE 1) |->
            [selectorName |-> direct[i], depth |-> 1]]

\* the queue seeded with the direct dependent selectors at depth 1
SeedQueue(g, name) ==
    LET direct == DependentsOf(g, name)
    IN  [i \in 1..Len(direct) |-> [selectorName |-> direct[i], depth |-> 1]]

\* the depth guard off by one
ExceedsDepthOffByOne(depth) == depth > maxDepth + 1

\* `depth > maxDepth`
ExceedsDepth(depth) == depth > maxDepth

\* the head read but never removed (queue[0] in place of queue.shift())
DequeueKeepsHead(q) == q

\* queue.shift(): the queue after the head was taken
Dequeue(q) == Tail(q)

\* the name never recorded as visited
MarkVisitedForgets(seen, name) == seen

\* visited.add(name)
MarkVisited(seen, name) == seen \cup {name}

\* the next selectors put in front of the queue (depth-first order)
EnqueueInFront(q, items) == items \o q

\* queue.push(...) of the next selectors
Enqueue(q, items) == q \o items

\* variant: the next selectors inherit the depth of the entry they hang off
SameDepth(depth) == depth

\* `depth + 1` of the selectors pushed for an entry
NextDepth(depth) == depth + 1

\* variant: an absent definition file is counted like any other
PlaceholderCounted(file) == TRUE

\* `if (dep.viaDefinition.file)`: the empty placeholder file is falsy
HasDefinitionFile(file) == file # ""

\* the transitive entry emitted for a selector
TransitiveEntry(g, selectorName, depth) ==
    LET selectorDefinition == MapGet(g.definitions, selectorName)
        selectorUsages == UsagesOf(g, selectorName)
    IN  [via |-> selectorName,
         viaDefinition |->
             IF selectorDefinition # Undefined
             THEN [file |-> selectorDefinition.file,
                   line |-> selectorDefinition.line,
                   kind |-> selectorDefinition.kind]
             ELSE [file |-> "", line |-> 0, kind |-> "selector"],
         depth |-> depth,
         readers |-> FilterType(selectorUsages, "reader"),
         setters |-> FilterType(selectorUsages, "setter")]

\* one iteration of `while (queue.length > 0)`; st = [queue, visited, transitive]
BfsStep(g, st) ==
    LET head == Head(st.queue)
        rest == Dequeue(st.queue)
    IN  IF ExceedsDepth(head.depth)
        THEN [st EXCEPT !.queue = rest]
        ELSE IF head.selectorName \in st.visited
        THEN [st EXCEPT !.queue = rest]
        ELSE LET seen == MarkVisited(st.visited, head.selectorName)
                 nextSelectors ==
                     SelectSeq(DependentsOf(g, head.selectorName),
                               LAMBDA n : n \notin seen)
             IN  [queue |-> Enqueue(rest,
                      [i \in 1..Len(nextSelectors) |->
                          [selectorName |-> nextSelectors[i],
                           depth |-> NextDepth(head.depth)]]),
                  visited |-> seen,
                  transitive |-> Append(st.transitive,
                      TransitiveEntry(g, head.selectorName, head.depth))]

\* the whole loop
RECURSIVE BfsLoop(_, _)
BfsLoop(g, st) == IF st.queue = <<>> THEN st ELSE BfsLoop(g, BfsStep(g, st))

\* files of a list of usages
FilesOf(usages) == {u.file : u \in Range(usages)}

\* variant: the definition files of the entries count as usage sites
TransitiveUsageAndDefinitionFiles(trans) ==
    UNION {FilesOf(dep.readers \o dep.setters) \cup {dep.viaDefinition.file} :
              dep \in Range(trans)}

\* usage-site files of the transitive entries
TransitiveUsageFiles(trans) ==
    UNION {FilesOf(dep.readers \o dep.setters) : dep \in Range(trans)}

\* definition files of the transitive entries (`if (dep.viaDefinition.file)`)
TransitiveDefinitionFiles(trans) ==
    {dep.viaDefinition.file :
        dep \in {d \in Range(trans) : HasDefinitionFile(d.viaDefinition.file)}}

Summary(direct, trans) ==
    LET directFiles == FilesOf(direct.readers \o direct.setters \o direct.initializers)
        componentFiles == directFiles \cup TransitiveUsageFiles(trans)
        allFiles == componentFiles \cup TransitiveDefinitionFiles(trans)
    IN  [totalFiles |-> Cardinality(allFiles),
         totalComponents |-> Cardinality(componentFiles),
         totalSelectors |-> Len(trans)]

\* direct: {readers, setters, initializers}
Direct(g, name, opts, definition) ==
    [readers |-> FilterType(UsagesOf(g, name), "reader"),
     setters |-> Setters(g, name, opts, definition),
     initializers |-> FilterType(UsagesOf(g, name), "initializer")]

\* the returned ImpactResult
ImpactResult(g, name, opts, definition, trans) ==
    LET direct == Direct(g, name, opts, definition) IN
    [target |-> [name |-> definition.name, kind |-> definition.kind,
                 file |-> definition.file, line |-> definition.line],
     direct |-> direct,
     transitive |-> trans,
     summary |-> Summary(direct, trans)]

\* the function as a whole; reading a field of undefined throws
analyzeAtomImpact(g, name, opts) ==
    LET definition == MapGet(g.definitions, name) IN
    IF IsMissing(definition) THEN Null
    ELSE IF definition = Undefined THEN Threw
    ELSE ImpactResult(g, name, opts, definition,
             BfsLoop(g, [queue |-> SeedQueue(g, name), visited |-> {},
                         transitive |-> <<>>]).transitive)

----------------------------------------------------------------------------
(* graph.ts: buildDependencyGraph *)

\* `usage.hook === 'get(selector)' && usage.enclosingDefinition`
IsSelectorDependency(usage) ==
    usage.hook = "get(selector)" /\ "enclosingDefinition" \in DOMAIN usage

\* variant: a member is appended even when it is already there
SetAddAgain(members, x) == Append(members, x)

\* Set.prototype.add on an insertion-ordered set
SetAdd(members, x) == IF x \in Range(members) THEN members ELSE Append(members, x)

\* variant: the relations are keyed by the usage's local name
AddUsageByLocalName(g, usage) ==
    IF IsSelectorDependency(usage)
    THEN [g EXCEPT !.dependentSelectors =
             MapSet(@, usage.localName,
                    SetAdd(DependentsOf(g, usage.localName),
                           usage.enclosingDefinition))]
    ELSE [g EXCEPT !.componentUsages =
             MapSet(@, usage.localName,
                    Append(UsagesOf(g, usage.localName), usage))]

\* the body of the partition loop for one usage
AddUsage(g, usage) ==
    IF IsSelectorDependency(usage)
    THEN [g EXCEPT !.dependentSelectors =
             MapSet(@, usage.resolvedName,
                    SetAdd(DependentsOf(g, usage.resolvedName),
                           usage.enclosingDefinition))]
    ELSE [g EXCEPT !.componentUsages =
             MapSet(@, usage.resolvedName,
                    Append(UsagesOf(g, usage.resolvedName), usage))]

RECURSIVE PartitionUsages(_, _)
PartitionUsages(g, usages) ==
    IF usages = <<>> THEN g
    ELSE PartitionUsages(AddUsage(g, Head(usages)), Tail(usages))

\* definitions.set(def.name, def) for every definition, in order
RECURSIVE IndexDefinitions(_, _)
IndexDefinitions(map, defs) ==
    IF defs = <<>> THEN map
    ELSE IndexDefinitions(MapSet(map, Head(defs).name, Head(defs)), Tail(defs))

buildDependencyGraph(recoilDefinitions, resolvedUsages) ==
    PartitionUsages(
        [definitions |-> IndexDefinitions(<<>>, recoilDefinitions),
         dependentSelectors |-> <<>>,
         componentUsages |-> <<>>],
        resolvedUsages)

----------------------------------------------------------------------------
(* Input family of the traversal: a chain 0 -> 1 -> ... -> n hanging off   *)
(* the target 0, plus a few extra dependency reads among the first names   *)

Names == 0..ChainLen
CoreNames == 0..CoreMax

AtomsFile == "/test/atoms.ts"
SelectorsFile == "/test/selectors.ts"
ComponentFile == "/test/component.tsx"
SharedFile == "/test/shared.tsx"

DefinitionOf(n) ==
    [name |-> n, kind |-> IF n = 0 THEN "atom" ELSE "selector",
     file |-> IF n = 0 THEN AtomsFile ELSE SelectorsFile, line |-> n + 1]

\* `get(from)` read inside the body of selector `to`
DependencyRead(from, to) ==
    [atomName |-> from, localName |-> ToString(from), type |-> "reader",
     hook |-> "get(selector)", file |-> SelectorsFile, line |-> to + 1,
     resolvedName |-> from, definitionFile |-> DefinitionOf(from).file,
     enclosingDefinition |-> to]

\* a hook usage in a component
HookUsage(n, type, hook, file, line) ==
    [atomName |-> n, localName |-> ToString(n), type |-> type, hook |-> hook,
     file |-> file, line |-> line, resolvedName |-> n,
     definitionFile |-> DefinitionOf(n).file]

ChainReads(len) == [i \in 1..len |-> DependencyRead(i - 1, i)]

ExtraReads(extra) ==
    [i \in 1..Len(extra) |-> DependencyRead(extra[i][1], extra[i][2])]

\* the component usages of the traversal family
FixedUsages ==
    << HookUsage(0, "reader", "useRecoilValue", ComponentFile, 10),
       HookUsage(1, "reader", "useRecoilValue", ComponentFile, 11),
       HookUsage(0, "setter", "useSetRecoilState", SharedFile, 12),
       HookUsage(2, "setter", "useSetRecoilState", SharedFile, 13),
       HookUsage(1, "reader", "useRecoilValue", SharedFile, 14) >>

DefinitionsExcept(missing) ==
    SelectSeq([i \in 1..(ChainLen + 1) |-> DefinitionOf(i - 1)],
              LAMBDA d : d.name \notin missing)

TraversalGraph(len, extra, extrasFirst, missing) ==
    buildDependencyGraph(
        DefinitionsExcept(missing),
        (IF extrasFirst THEN ExtraReads(extra) \o ChainReads(len)
                        ELSE ChainReads(len) \o ExtraReads(extra))
        \o FixedUsages)

EmptyCoverage == [runtimeCallsites |-> <<>>, resolvedFactoryKeys |-> {}]

NoProgram == [none |-> TRUE]

\* a directory argument that was given and exists
ScannedDir == [given |-> TRUE, exists |-> TRUE]

NoExtraction ==
    [recoilDefinitions |-> <<>>, jotaiDefinitions |-> <<>>, jotaiImports |-> <<>>]

StagesIdle ==
    /\ extraction = NoExtraction
    /\ collected = <<>>
    /\ resolution = <<>>
    /\ violations = <<>>
    /\ exitCode = Pending
    /\ targetDir = ScannedDir

PipelineIdle ==
    /\ program = NoProgram
    /\ cursor = 0
    /\ setterBindings = <<>>
    /\ wrapperCache = <<>>
    /\ parsedFileCache = <<>>
    /\ analysisLog = <<>>
    /\ resolvedFactoryKeys = {}
    /\ runtimeCallsites = <<>>

ImpactIdle ==
    /\ pc = "start"
    /\ queue = <<>>
    /\ visited = {}
    /\ transitive = <<>>
    /\ result = Pending
    /\ previous = Pending

InitTraversal ==
    /\ \/ \E len \in 0..ChainLen, extrasFirst \in BOOLEAN :
          \E extra \in SeqsUpTo(CoreNames \X CoreNames, MaxExtra) :
             /\ graph = TraversalGraph(len, extra, extrasFirst, {})
             /\ coverageOptions = Undefined
       \/ \E len \in 0..ChainLen, u \in CoreNames :
          \E extra \in SeqsUpTo(CoreNames \X CoreNames, 1) :
             /\ graph = TraversalGraph(len, extra, FALSE, {u})
             /\ coverageOptions \in {Undefined, EmptyCoverage}
    /\ atomName = 0
    /\ ImpactIdle
    /\ PipelineIdle
    /\ StagesIdle

----------------------------------------------------------------------------
(* analyzeAtomImpact, step by step *)

\* lines 35-38: the target has no definition
ReturnNotFound ==
    /\ pc = "start"
    /\ IsMissing(MapGet(graph.definitions, atomName))
    /\ result' = Null
    /\ pc' = "done"
    /\ UNCHANGED <<graph, atomName, coverageOptions, queue, visited, transitive>>
    /\ UNCHANGED previous
    /\ UNCHANGED pipelineVars
    /\ UNCHANGED stageVars

\* lines 41-99: direct usages, write list, and the seeded queue
Begin ==
    /\ pc = "start"
    /\ ~IsMissing(MapGet(graph.definitions, atomName))
    /\ IF MapGet(graph.definitions, atomName) = Undefined
       THEN /\ result' = Threw
            /\ pc' = "done"
            /\ UNCHANGED <<queue, visited, transitive>>
       ELSE /\ queue' = SeedQueue(graph, atomName)
            /\ visited' = NewVisited
            /\ transitive' = <<>>
            /\ pc' = "bfs"
            /\ UNCHANGED result
    /\ UNCHANGED <<graph, atomName, coverageOptions>>
    /\ UNCHANGED previous
    /\ UNCHANGED pipelineVars
    /\ UNCHANGED stageVars

\* lines 101-139: one iteration of the while loop
LoopIteration ==
    /\ pc = "bfs"
    /\ queue # <<>>
    /\ LET st == BfsStep(graph, [queue |-> queue, visited |-> visited,
                                 transitive |-> transitive])
       IN  /\ queue' = st.queue
           /\ visited' = st.visited
           /\ transitive' = st.transitive
    /\ UNCHANGED <<graph, atomName, coverageOptions, pc, result>>
    /\ UNCHANGED previous
    /\ UNCHANGED pipelineVars
    /\ UNCHANGED stageVars

\* lines 141-177: the summary and the returned value
Finish ==
    /\ pc = "bfs"
    /\ queue = <<>>
    /\ result' = ImpactResult(graph, atomName, coverageOptions,
                              MapGet(graph.definitions, atomName), transitive)
    /\ pc' = "done"
    /\ UNCHANGED <<graph, atomName, coverageOptions, queue, visited, transitive>>
    /\ UNCHANGED previous
    /\ UNCHANGED pipelineVars
    /\ UNCHANGED stageVars

NextImpact == ReturnNotFound \/ Begin \/ LoopIteration \/ Finish

\* the caller keeps the returned value and calls again with the same arguments
CallAgain ==
    /\ pc = "done"
    /\ previous = Pending
    /\ previous' = result
    /\ result' = Pending
    /\ pc' = "start"
    /\ UNCHANGED <<graph, atomName, coverageOptions, queue, visited, transitive>>
    /\ UNCHANGED pipelineVars
    /\ UNCHANGED stageVars

\* analyzeAtomImpact over the traversal family
SpecTraversal == InitTraversal /\ [][NextImpact]_vars

\* the call runs to completion: it is synchronous and never preempted
SpecTraversalFair == InitTraversal /\ [][NextImpact]_vars /\ WF_vars(NextImpact)

----------------------------------------------------------------------------
(* Properties of the traversal *)

\* the call returned an ImpactResult
Returned == pc = "done" /\ result \notin {Null, Threw, Pending}

Vias(trans) == {trans[i].via : i \in DOMAIN trans}

\* C2: in the returned `transitive` list each name is the `via` of at most
\* one entry, however many dependency paths reach it
TransitiveViaUnique ==
    Returned =>
        \A i, j \in DOMAIN result.transitive :
            i # j => result.transitive[i].via # result.transitive[j].via

\* a returned list with an entry that two different visited names lead to
DiamondReached ==
    /\ Returned
    /\ \E v \in Vias(result.transitive) :
       \E a, b \in Vias(result.transitive) \cup {atomName} :
          /\ a # b
          /\ v \in Range(DependentsOf(graph, a))
          /\ v \in Range(DependentsOf(graph, b))

\* C3: every call of analyzeAtomImpact returns, also on a graph whose
\* dependents relation has a cycle
AnalysisTerminates == <>(pc = "done")

\* a call that returned on a graph where two selectors depend on each other
CycleTerminated ==
    /\ Returned
    /\ \E a, b \in Vias(result.transitive) :
          /\ a # b
          /\ b \in Range(DependentsOf(graph, a))
          /\ a \in Range(DependentsOf(graph, b))

\* the dependents relation of a 7-node chain hanging off the target
SevenChain == [i \in 0..6 |-> <<i + 1>>]

\* C4: no transitive entry is deeper than 5, and on the 7-node chain the
\* list is exactly nodes 1..5 at depths 1..5 (nodes 6 and 7 are absent)
DepthLimitRespected ==
    Returned =>
        /\ \A i \in DOMAIN result.transitive :
              result.transitive[i].depth <= 5
        /\ graph.dependentSelectors = SevenChain =>
              /\ Len(result.transitive) = 5
              /\ \A i \in 1..5 :
                    /\ result.transitive[i].via = i
                    /\ result.transitive[i].depth = i

\* the 7-node chain was analysed
SevenChainAnalysed ==
    /\ Returned
    /\ graph.dependentSelectors = SevenChain
    /\ Len(result.transitive) = 5

\* C5: the depths of the transitive entries never decrease along the list
DepthsNonDecreasing ==
    Returned =>
        \A i, j \in DOMAIN result.transitive :
            i < j => result.transitive[i].depth <= result.transitive[j].depth

\* a returned list with two entries at depth 1 followed by a deeper one
MixedDepthsReturned ==
    /\ Returned
    /\ Len(result.transitive) >= 3
    /\ result.transitive[1].depth = 1
    /\ result.transitive[2].depth = 1
    /\ result.transitive[3].depth = 2
    /\ DependentsOf(graph, result.transitive[1].via) # <<>>

\* C6: a target that is no key of the definitions map gives null, never an
\* exception, with and without coverage options
UnknownTargetGivesNull ==
    (pc = "done" /\ atomName \notin DOMAIN graph.definitions) => result = Null

\* an unknown target that has usages and dependents, analysed in coverage mode
UnknownTargetAnalysed ==
    /\ pc = "done"
    /\ atomName \notin DOMAIN graph.definitions
    /\ coverageOptions # Undefined
    /\ UsagesOf(graph, atomName) # <<>>
    /\ DependentsOf(graph, atomName) # <<>>
    /\ result = Null

----------------------------------------------------------------------------
(* Input family of the coverage merge: the target's usage list and the     *)
(* coverage options are arbitrary short lists over a few sites             *)

WrapperFile == "/test/wrapper-hooks.ts"
ConsumerFile == "/test/consumer.tsx"

\* usages the target's list is drawn from; the tuple hook gives a reader and
\* a setter at one line
CandidateUsages ==
    { HookUsage(0, "setter", "useSetRecoilState", WrapperFile, 5),
      HookUsage(0, "setter", "useRecoilState", ComponentFile, 6),
      HookUsage(0, "reader", "useRecoilState", ComponentFile, 6),
      HookUsage(0, "initializer", "set(initializer)", ComponentFile, 7) }

CandidateCallsites ==
    { [atomName |-> 0, file |-> ConsumerFile, line |-> 42, calleeName |-> "setFoo"],
      [atomName |-> 0, file |-> ComponentFile, line |-> 6, calleeName |-> "setBar"],
      [atomName |-> 1, file |-> ConsumerFile, line |-> 43, calleeName |-> "setOther"] }

CandidateKeys == {<<WrapperFile, 5>>, <<ComponentFile, 6>>}

MergeGraph(usages) ==
    buildDependencyGraph(<<DefinitionOf(0), DefinitionOf(1)>>,
                         <<DependencyRead(0, 1)>> \o usages)

InitMerge ==
    /\ \E usages \in SeqsUpTo(CandidateUsages, MaxUsages) :
          graph = MergeGraph(usages)
    /\ \/ /\ atomName = 0
          /\ \/ coverageOptions = Undefined
             \/ \E callsites \in SeqsUpTo(CandidateCallsites, MaxCallsites) :
                \E keys \in SUBSET CandidateKeys :
                   coverageOptions = [runtimeCallsites |-> callsites,
                                      resolvedFactoryKeys |-> keys]
       \/ /\ atomName = 2
          /\ coverageOptions = Undefined
    /\ ImpactIdle
    /\ PipelineIdle
    /\ StagesIdle

\* analyzeAtomImpact over the merge family
SpecMerge == InitMerge /\ [][NextImpact]_vars

----------------------------------------------------------------------------
(* Properties of the write list *)

\* the k-th smallest member of a set of indices
NthIndex(indices, k) ==
    CHOOSE i \in indices : Cardinality({j \in indices : j < i}) = k - 1

\* the usage list the graph holds for the target
TargetUsages ==
    IF atomName \in DOMAIN graph.componentUsages
    THEN graph.componentUsages[atomName] ELSE <<>>

SetterIndices == {i \in DOMAIN TargetUsages : TargetUsages[i].type = "setter"}

\* C7: without coverage options direct.setters is the target's usages of
\* type 'setter', unchanged and in the order of the graph's usage list, and
\* no entry has a writerKind field
LegacySettersAreFactorySetters ==
    (Returned /\ coverageOptions = Undefined) =>
        /\ Len(result.direct.setters) = Cardinality(SetterIndices)
        /\ \A k \in DOMAIN result.direct.setters :
              /\ result.direct.setters[k] = TargetUsages[NthIndex(SetterIndices, k)]
              /\ "writerKind" \notin DOMAIN result.direct.setters[k]

\* a legacy call whose usage list has two setters around another usage
LegacySettersReturned ==
    /\ Returned
    /\ coverageOptions = Undefined
    /\ Len(result.direct.setters) = 2
    /\ Len(TargetUsages) = 3
    /\ TargetUsages[2].type # "setter"
    /\ result.direct.setters[1] # result.direct.setters[2]

RuntimeIndices ==
    {i \in DOMAIN coverageOptions.runtimeCallsites :
        coverageOptions.runtimeCallsites[i].atomName = atomName}

FallbackIndices ==
    {i \in SetterIndices :
        <<TargetUsages[i].file, TargetUsages[i].line>>
            \notin coverageOptions.resolvedFactoryKeys}

\* C8: with coverage options direct.setters is the target's runtime callsites
\* in input order (tagged 'runtime', hook 'setter call') followed by the
\* target's setter usages whose file:line is not resolved, in original order
\* (tagged 'fallback', hook kept); resolved factory usages are absent
CoverageSettersAreRuntimeThenFallback ==
    (Returned /\ coverageOptions # Undefined) =>
        LET setters == result.direct.setters
            nRuntime == Cardinality(RuntimeIndices)
        IN  /\ Len(setters) = nRuntime + Cardinality(FallbackIndices)
            /\ \A k \in 1..nRuntime :
                  LET c == coverageOptions.runtimeCallsites[NthIndex(RuntimeIndices, k)]
                  IN  /\ setters[k].writerKind = "runtime"
                      /\ setters[k].hook = "setter call"
                      /\ setters[k].type = "setter"
                      /\ setters[k].file = c.file
                      /\ setters[k].line = c.line
                      /\ setters[k].localName = c.calleeName
                      /\ setters[k].resolvedName = atomName
            /\ \A k \in 1..Cardinality(FallbackIndices) :
                  LET f == TargetUsages[NthIndex(FallbackIndices, k)]
                      entry == setters[nRuntime + k]
                  IN  /\ entry.writerKind = "fallback"
                      /\ DOMAIN entry = DOMAIN f \cup {"writerKind"}
                      /\ \A field \in DOMAIN f : entry[field] = f[field]
            /\ \A k \in DOMAIN setters :
                  setters[k].writerKind = "fallback" =>
                      <<setters[k].file, setters[k].line>>
                          \notin coverageOptions.resolvedFactoryKeys

\* a coverage call with a runtime entry, a fallback entry, a resolved factory
\* usage that was dropped and a callsite of another atom that was ignored
CoverageMergeReturned ==
    /\ Returned
    /\ coverageOptions # Undefined
    /\ RuntimeIndices # {}
    /\ FallbackIndices # {}
    /\ SetterIndices \ FallbackIndices # {}
    /\ DOMAIN coverageOptions.runtimeCallsites \ RuntimeIndices # {}

----------------------------------------------------------------------------
(* Abstract syntax of the scanned files.  A node is a record with a `type`, *)
(* its `children` in source order, and the attributes the analysis reads.   *)
(* A program maps each file path to [hookAliases, imports, reExports, ast]. *)

Identifier(name) == [type |-> "Identifier", name |-> name, children |-> <<>>]

ArrayPattern(names) ==
    [type |-> "ArrayPattern",
     elements |-> [i \in 1..Len(names) |-> Identifier(names[i])],
     children |-> <<>>]

\* callee(argument) at a line; argument is a state name or Undefined
CallExpression(callee, argument, line) ==
    [type |-> "CallExpression", callee |-> Identifier(callee),
     argument |-> argument, line |-> line,
     children |-> IF argument = Undefined THEN <<>> ELSE <<argument>>]

ObjectExpression(properties) ==
    [type |-> "ObjectExpression", children |-> properties]

ReturnStatement(argument) ==
    [type |-> "ReturnStatement", argument |-> argument,
     children |-> IF argument = Null THEN <<>> ELSE <<argument>>]

FunctionBody(statements) == [type |-> "FunctionBody", children |-> statements]

\* `function () body` bound to a variable; the expression itself has no name
FunctionExpression(body) ==
    [type |-> "FunctionExpression", id |-> Null, body |-> body,
     children |-> <<body>>]

\* `() => body`; body is an expression (shorthand) or a FunctionBody
ArrowFunctionExpression(body) ==
    [type |-> "ArrowFunctionExpression", body |-> body, children |-> <<body>>]

FunctionDeclaration(name, line, body) ==
    [type |-> "FunctionDeclaration", id |-> Identifier(name), line |-> line,
     body |-> body, children |-> <<body>>]

VariableDeclarator(id, init, line) ==
    [type |-> "VariableDeclarator", id |-> id, init |-> init, line |-> line,
     children |-> <<init>>]

Program(statements) == [type |-> "Program", children |-> statements]

\* oxc-walker's walk: every node of the tree in pre-order.  Returning from
\* `enter` does not prune the walk, so nested nodes are always visited.
RECURSIVE Walk(_)
RECURSIVE WalkAll(_)
WalkAll(nodes) ==
    IF nodes = <<>> THEN <<>> ELSE Walk(Head(nodes)) \o WalkAll(Tail(nodes))

Walk(node) == <<node>> \o WalkAll(node.children)

----------------------------------------------------------------------------
(* setter-bindings.ts *)

setterHookNames == {"useSetRecoilState", "useResetRecoilState"}
tupleHookNames == {"useRecoilState"}
allSetterHooks == setterHookNames \cup tupleHookNames

\* no name: null and the empty string are both falsy in `if (!atomName)`
NoName == ""

\* the state name of a hook argument: `atom` or `family(id)`
extractAtomName(argument) ==
    IF argument = Undefined THEN NoName
    ELSE IF argument.type = "Identifier" THEN argument.name
    ELSE IF argument.type = "CallExpression" /\ argument.callee.type = "Identifier"
         THEN argument.callee.name
    ELSE NoName

\* local alias -> canonical hook, for the setter and tuple hooks imported
\* from 'recoil'
getRecoilHookAliases(file) ==
    [local \in {l \in DOMAIN file.recoilImports :
                   file.recoilImports[l] \in allSetterHooks}
        |-> file.recoilImports[local]]

resolveDirectHookWriteBinding(callExpr, hookAliases) ==
    IF callExpr.callee.type # "Identifier" THEN Undefined
    ELSE IF callExpr.callee.name \notin DOMAIN hookAliases THEN Undefined
    ELSE LET canonicalHook == hookAliases[callExpr.callee.name]
             stateId == extractAtomName(callExpr.argument)
         IN  IF stateId = NoName THEN Undefined
             ELSE IF canonicalHook \in setterHookNames
                  THEN [kind |-> "setter", stateId |-> stateId]
             ELSE IF canonicalHook \in tupleHookNames
                  THEN [kind |-> "tuple", stateId |-> stateId]
             ELSE Undefined

\* the parsed file, or null for a path that cannot be read
parseFile(prog, filePath) ==
    IF filePath \in DOMAIN prog THEN prog[filePath] ELSE Null

\* does this node define the function `name`?
DefinesFunction(node, name) ==
    \/ /\ node.type = "FunctionDeclaration"
       /\ node.id.type = "Identifier"
       /\ node.id.name = name
    \/ /\ node.type = "VariableDeclarator"
       /\ node.id.type = "Identifier"
       /\ node.id.name = name
       /\ node.init.type \in {"ArrowFunctionExpression", "FunctionExpression"}

\* the FunctionDefinitionResult built from a defining node; `line` is the
\* line of the declaration or declarator itself
FunctionDefinitionResult(node, filePath, hookAliases) ==
    IF node.type = "FunctionDeclaration"
    THEN [body |-> node.body, file |-> filePath, line |-> node.line,
          isArrowShorthand |-> FALSE, hookAliases |-> hookAliases]
    ELSE [body |-> node.init.body, file |-> filePath, line |-> node.line,
          isArrowShorthand |->
              /\ node.init.type = "ArrowFunctionExpression"
              /\ node.init.body.type # "FunctionBody",
          hookAliases |-> hookAliases]

findFunctionInFile(prog, name, filePath) ==
    LET parsed == parseFile(prog, filePath) IN
    IF parsed = Null THEN Undefined
    ELSE LET found == SelectSeq(Walk(parsed.ast),
                                LAMBDA node : DefinesFunction(node, name))
         IN  IF found = <<>> THEN Undefined
             ELSE FunctionDefinitionResult(found[1], filePath,
                                           getRecoilHookAliases(parsed))

\* followExportChain; returns [result, visited] since `visited` is shared
\* by all branches of one lookup
RECURSIVE followExportChain(_, _, _, _, _)
RECURSIVE FollowStars(_, _, _, _, _)
FollowStars(prog, name, stars, depth, seen) ==
    IF stars = <<>> THEN [result |-> Undefined, visited |-> seen]
    ELSE LET r == followExportChain(prog, name, Head(stars).sourceFile, depth, seen)
         IN  IF r.result # Undefined THEN r
             ELSE FollowStars(prog, name, Tail(stars), depth, r.visited)

followExportChain(prog, name, filePath, depth, seen) ==
    IF depth > maxChainDepth THEN [result |-> Undefined, visited |-> seen]
    ELSE IF <<filePath, name>> \in seen THEN [result |-> Undefined, visited |-> seen]
    ELSE LET seen1 == seen \cup {<<filePath, name>>}
             parsed == parseFile(prog, filePath)
         IN  IF findFunctionInFile(prog, name, filePath) # Undefined
             THEN [result |-> [sourceFile |-> filePath, exportedName |-> name],
                   visited |-> seen1]
             ELSE IF parsed = Null THEN [result |-> Undefined, visited |-> seen1]
             ELSE LET named == SelectSeq(parsed.reExports,
                          LAMBDA r : r.type = "named" /\ r.localName = name)
                  IN  IF named # <<>>
                      THEN followExportChain(prog, named[1].exportedName,
                               named[1].sourceFile, depth + 1, seen1)
                      ELSE LET stars == SelectSeq(parsed.reExports,
                                            LAMBDA r : r.type = "star")
                               viaStar == FollowStars(prog, name, stars, depth + 1, seen1)
                               imported == SelectSeq(parsed.imports,
                                            LAMBDA i : i.localName = name)
                           IN  IF viaStar.result # Undefined THEN viaStar
                               ELSE IF imported # <<>>
                               THEN followExportChain(prog, imported[1].exportedName,
                                        imported[1].sourceFile, depth + 1,
                                        viaStar.visited)
                               ELSE [result |-> Undefined, visited |-> viaStar.visited]

\* the loop over the import records of the calling file
RECURSIVE ResolveViaImports(_, _, _)
ResolveViaImports(prog, calleeName, imports) ==
    IF imports = <<>> THEN Undefined
    ELSE LET importRecord == Head(imports) IN
         IF importRecord.localName # calleeName
         THEN ResolveViaImports(prog, calleeName, Tail(imports))
         ELSE LET resolved == followExportChain(prog, importRecord.exportedName,
                                  importRecord.sourceFile, 1, {}).result
                  directDef == findFunctionInFile(prog, importRecord.exportedName,
                                                  importRecord.sourceFile)
              IN  IF resolved # Undefined
                  THEN findFunctionInFile(prog, resolved.exportedName,
                                          resolved.sourceFile)
                  ELSE IF directDef # Undefined THEN directDef
                  ELSE ResolveViaImports(prog, calleeName, Tail(imports))

resolveCalleeToFunctionDefinition(prog, calleeName, file) ==
    LET localDef == findFunctionInFile(prog, calleeName, file)
        parsed == parseFile(prog, file)
    IN  IF localDef # Undefined THEN localDef
        ELSE IF parsed = Null THEN Undefined
        ELSE ResolveViaImports(prog, calleeName, parsed.imports)

\* the argument of the first ReturnStatement the walk of the block meets
findFirstReturnInOwnScope(blockNode) ==
    LET returns == SelectSeq(Walk(blockNode),
                       LAMBDA node : /\ node.type = "ReturnStatement"
                                     /\ node.argument # Null)
    IN  IF returns = <<>> THEN Undefined ELSE returns[1].argument

getReturnExpression(functionDef) ==
    IF functionDef.isArrowShorthand THEN functionDef.body
    ELSE findFirstReturnInOwnScope(functionDef.body)

analyzeWrapperReturnExpression(functionDef) ==
    LET returnExpr == getReturnExpression(functionDef) IN
    IF returnExpr = Undefined THEN Undefined
    ELSE IF returnExpr.type = "CallExpression"
         THEN resolveDirectHookWriteBinding(returnExpr, functionDef.hookAliases)
    ELSE Undefined

\* variant: the memo is never consulted
CachedNever(cache, cacheKey) == Undefined

\* wrapperCache.get(cacheKey)
Cached(cache, cacheKey) == MapGet(cache, cacheKey)

\* resolveHookWriteBinding; returns [binding, cache, analysed]: the binding,
\* the wrapper cache afterwards, and the key of the wrapper whose return
\* expression was analysed by this call (none: the empty list)
resolveHookWriteBinding(prog, callExpr, file, hookAliases, cache) ==
    LET directBinding == resolveDirectHookWriteBinding(callExpr, hookAliases)
        none(binding) == [binding |-> binding, cache |-> cache, analysed |-> <<>>]
    IN
    IF directBinding # Undefined THEN none(directBinding)
    ELSE IF callExpr.callee.type # "Identifier" THEN none(Undefined)
    ELSE LET functionDef ==
                 resolveCalleeToFunctionDefinition(prog, callExpr.callee.name, file)
         IN  IF functionDef = Undefined THEN none(Undefined)
             ELSE LET cacheKey == <<functionDef.file, functionDef.line>>
                      cached == Cached(cache, cacheKey)
                      binding == analyzeWrapperReturnExpression(functionDef)
                  IN  IF cached # Undefined
                      THEN none(IF cached = Null THEN Undefined ELSE cached)
                      ELSE [binding |-> binding,
                            cache |-> MapSet(cache, cacheKey,
                                IF binding = Undefined THEN Null ELSE binding),
                            analysed |-> <<cacheKey>>]

bindSetterIdentifiers(declarator, binding, file, bindings) ==
    IF binding.kind = "setter" /\ declarator.id.type = "Identifier"
    THEN MapSet(bindings, <<file, declarator.id.name>>, binding.stateId)
    ELSE IF /\ binding.kind = "tuple"
            /\ declarator.id.type = "ArrayPattern"
            /\ Len(declarator.id.elements) >= 2
            /\ declarator.id.elements[2].type = "Identifier"
         THEN MapSet(bindings, <<file, declarator.id.elements[2].name>>,
                     binding.stateId)
    ELSE bindings

\* the key buildSetterBindings records for a binding made through a wrapper
ResolvedKeyOf(functionDef) == <<functionDef.file, functionDef.line>>

\* variant: the wrapper's site is never recorded
TrackResolvedFactoryNever(prog, callExpr, file, hookAliases, keys) == keys

\* the factory keys after one declarator was bound
TrackResolvedFactory(prog, callExpr, file, hookAliases, keys) ==
    IF resolveDirectHookWriteBinding(callExpr, hookAliases) # Undefined THEN keys
    ELSE LET functionDef ==
                 resolveCalleeToFunctionDefinition(prog, callExpr.callee.name, file)
         IN  IF functionDef = Undefined THEN keys
             ELSE keys \cup {ResolvedKeyOf(functionDef)}

\* the files as parseFile returns them: a cached entry wins over the disk
FileView(cache, disk) ==
    [f \in {g \in DOMAIN cache : cache[g] # Null} \cup (DOMAIN disk \ DOMAIN cache) |->
        IF f \in DOMAIN cache THEN cache[f] ELSE disk[f]]

\* parsedFileCache after parseFile was called for each of the files
CacheFiles(cache, disk, files) ==
    [f \in DOMAIN cache \cup files |->
        IF f \in DOMAIN cache THEN cache[f] ELSE parseFile(disk, f)]

\* variant: the cache of the previous run is kept
KeepParsedFiles(cache) == cache

\* parsedFileCache.clear()
ClearParsedFiles(cache) == <<>>

\* the files parseFile is called for while the imports of a file are followed
RECURSIVE ParsedViaImports(_, _, _)
ParsedViaImports(prog, calleeName, imports) ==
    IF imports = <<>> THEN {}
    ELSE LET importRecord == Head(imports) IN
         IF importRecord.localName # calleeName
         THEN ParsedViaImports(prog, calleeName, Tail(imports))
         ELSE LET chain == followExportChain(prog, importRecord.exportedName,
                               importRecord.sourceFile, 1, {})
              IN  {visit[1] : visit \in chain.visited}
                  \cup (IF \/ chain.result # Undefined
                           \/ findFunctionInFile(prog, importRecord.exportedName,
                                                 importRecord.sourceFile) # Undefined
                        THEN {}
                        ELSE ParsedViaImports(prog, calleeName, Tail(imports)))

\* the files parseFile is called for by resolveCalleeToFunctionDefinition
ParsedByCallee(prog, calleeName, file) ==
    {file} \cup
    (IF \/ findFunctionInFile(prog, calleeName, file) # Undefined
        \/ parseFile(prog, file) = Null
     THEN {}
     ELSE ParsedViaImports(prog, calleeName, parseFile(prog, file).imports))

\* the files parseFile is called for when one declarator is visited
ParsedByDeclarator(prog, callExpr, file, hookAliases) ==
    IF \/ resolveDirectHookWriteBinding(callExpr, hookAliases) # Undefined
       \/ callExpr.callee.type # "Identifier"
    THEN {file}
    ELSE ParsedByCallee(prog, callExpr.callee.name, file)

\* the files of the scan list up to and including `file`
ScannedUpTo(files, file) ==
    {files[i] : i \in {k \in 1..Len(files) :
                          \E j \in k..Len(files) : files[j] = file}}

\* the nodes the walk of buildSetterBindings acts on, as <<file, declarator>>
DeclaratorsOfFile(prog, file) ==
    LET parsed == parseFile(prog, file) IN
    IF parsed = Null THEN <<>>
    ELSE LET found == SelectSeq(Walk(parsed.ast),
                          LAMBDA node : /\ node.type = "VariableDeclarator"
                                        /\ node.init.type = "CallExpression")
         IN  [i \in 1..Len(found) |-> <<file, found[i]>>]

RECURSIVE DeclaratorsOf(_, _)
DeclaratorsOf(prog, files) ==
    IF files = <<>> THEN <<>>
    ELSE DeclaratorsOfFile(prog, Head(files)) \o DeclaratorsOf(prog, Tail(files))

----------------------------------------------------------------------------
(* setter-callsites.ts *)

CallsitesOfFile(prog, file, bindings) ==
    LET parsed == parseFile(prog, file) IN
    IF parsed = Null THEN <<>>
    ELSE LET calls == SelectSeq(Walk(parsed.ast),
                          LAMBDA node : /\ node.type = "CallExpression"
                                        /\ node.callee.type = "Identifier"
                                        /\ <<file, node.callee.name>> \in DOMAIN bindings)
         IN  [i \in 1..Len(calls) |->
                 [atomName |-> bindings[<<file, calls[i].callee.name>>],
                  file |-> file, line |-> calls[i].line,
                  calleeName |-> calls[i].callee.name]]

RECURSIVE collectRuntimeWriteCallsites(_, _, _)
collectRuntimeWriteCallsites(prog, files, bindings) ==
    IF files = <<>> THEN <<>>
    ELSE CallsitesOfFile(prog, Head(files), bindings)
         \o collectRuntimeWriteCallsites(prog, Tail(files), bindings)

----------------------------------------------------------------------------
(* collect-usages.ts: the hook pass over call expressions *)

\* the usages one hook call produces
UsagesOfCall(node, filePath, hookName) ==
    LET name == extractAtomName(node.argument)
        usage(type) == [atomName |-> name, localName |-> name, type |-> type,
                        hook |-> hookName, file |-> filePath, line |-> node.line]
    IN  IF name = NoName THEN <<>>
        ELSE IF hookName = "useRecoilValue" THEN <<usage("reader")>>
        ELSE IF hookName \in {"useSetRecoilState", "useResetRecoilState"}
             THEN <<usage("setter")>>
        ELSE IF hookName = "useRecoilState"
             THEN <<usage("reader"), usage("setter")>>
        ELSE <<>>

\* /^initialize/i over the function names that occur in the checked files
InitializerNames == {"initializeFoo", "InitializeFoo"}

StartsWithInitialize(name) == name \in InitializerNames

\* lines 555-575: a bare set() call under the innermost function declaration
InitializerUsage(node, filePath) ==
    LET name == extractAtomName(node.argument) IN
    IF name = NoName THEN <<>>
    ELSE <<[atomName |-> name, localName |-> name, type |-> "initializer",
            hook |-> "set(initializer)", file |-> filePath, line |-> node.line]>>

\* the `enter` callback for one node; functionNameStack holds the names of
\* the enclosing function declarations
EnterNode(node, functionNameStack, filePath, aliases) ==
    IF node.type # "CallExpression" THEN <<>>
    ELSE IF node.callee.type # "Identifier" THEN <<>>
    ELSE IF /\ node.callee.name = "set"
            /\ functionNameStack # <<>>
            /\ StartsWithInitialize(functionNameStack[Len(functionNameStack)])
         THEN InitializerUsage(node, filePath)
    ELSE IF node.callee.name \in DOMAIN aliases
         THEN UsagesOfCall(node, filePath, aliases[node.callee.name])
    ELSE <<>>

\* the walk of collectFromFile: enter pushes the name of a function
\* declaration, leave pops it
RECURSIVE CollectWalk(_, _, _, _)
RECURSIVE CollectWalkAll(_, _, _, _)
CollectWalkAll(nodes, functionNameStack, filePath, aliases) ==
    IF nodes = <<>> THEN <<>>
    ELSE CollectWalk(Head(nodes), functionNameStack, filePath, aliases)
         \o CollectWalkAll(Tail(nodes), functionNameStack, filePath, aliases)

CollectWalk(node, functionNameStack, filePath, aliases) ==
    LET pushed == IF node.type = "FunctionDeclaration" /\ node.id.type = "Identifier"
                  THEN Append(functionNameStack, node.id.name)
                  ELSE functionNameStack
    IN  EnterNode(node, pushed, filePath, aliases)
        \o CollectWalkAll(node.children, pushed, filePath, aliases)

collectFromFile(prog, filePath) ==
    CollectWalk(prog[filePath].ast, <<>>, filePath, prog[filePath].recoilImports)

\* pass 2a: the hook usages of all files, in scan order
RECURSIVE CollectHookUsages(_, _)
CollectHookUsages(prog, files) ==
    IF files = <<>> THEN <<>>
    ELSE (IF Head(files) \in DOMAIN prog THEN collectFromFile(prog, Head(files))
          ELSE <<>>)
         \o CollectHookUsages(prog, Tail(files))

\* the get(X) reads inside one selector body
walkSelectorGetBody(bodyNode, filePath, definitionName) ==
    LET reads == SelectSeq(Walk(bodyNode),
                     LAMBDA node : /\ node.type = "CallExpression"
                                   /\ node.callee.type = "Identifier"
                                   /\ node.callee.name = "get"
                                   /\ extractAtomName(node.argument) # NoName)
    IN  [i \in 1..Len(reads) |->
            [atomName |-> extractAtomName(reads[i].argument),
             localName |-> extractAtomName(reads[i].argument),
             type |-> "reader", hook |-> "get(selector)", file |-> filePath,
             line |-> reads[i].line, enclosingDefinition |-> definitionName]]

\* pass 2b: standalone selector bodies of the extracted definitions
RECURSIVE collectFromSelectorBodies(_)
collectFromSelectorBodies(defs) ==
    IF defs = <<>> THEN <<>>
    ELSE LET def == Head(defs) IN
         (IF def.kind \in {"selector", "selectorFamily"} /\ def.getBodyAst # Undefined
          THEN walkSelectorGetBody(def.getBodyAst, def.file, def.name)
          ELSE <<>>)
         \o collectFromSelectorBodies(Tail(defs))

collectUsages(prog, files, defs) ==
    CollectHookUsages(prog, files) \o collectFromSelectorBodies(defs)

----------------------------------------------------------------------------
(* resolve.ts: resolveUsages *)

\* definitionLookup.get(file)?.has(name)
IsDefinedIn(defs, file, name) ==
    \E i \in DOMAIN defs : defs[i].file = file /\ defs[i].name = name

\* resolveExportedName; returns [result, visited]
RECURSIVE resolveExportedName(_, _, _, _, _, _)
RECURSIVE ResolveStars(_, _, _, _, _, _)
\* variant: the first wildcard source is trusted without looking into it
ResolveStarsTrusting(prog, defs, name, stars, depth, seen) ==
    IF stars = <<>> THEN [result |-> Null, visited |-> seen]
    ELSE [result |-> [resolvedName |-> name,
                      definitionFile |-> Head(stars).sourceFile],
          visited |-> seen]

ResolveStars(prog, defs, name, stars, depth, seen) ==
    IF stars = <<>> THEN [result |-> Null, visited |-> seen]
    ELSE LET r == resolveExportedName(prog, defs, Head(stars).sourceFile, name,
                                      depth, seen)
         IN  IF r.result # Null THEN r
             ELSE ResolveStars(prog, defs, name, Tail(stars), depth, r.visited)

resolveExportedName(prog, defs, file, name, depth, seen) ==
    IF depth > maxChainDepth THEN [result |-> Null, visited |-> seen]
    ELSE IF <<file, name>> \in seen THEN [result |-> Null, visited |-> seen]
    ELSE LET seen1 == seen \cup {<<file, name>>} IN
         IF IsDefinedIn(defs, file, name)
         THEN [result |-> [resolvedName |-> name, definitionFile |-> file],
               visited |-> seen1]
         ELSE IF file \notin DOMAIN prog THEN [result |-> Null, visited |-> seen1]
         ELSE LET named == SelectSeq(prog[file].reExports,
                      LAMBDA r : r.type = "named" /\ r.localName = name)
              IN  IF named # <<>>
                  THEN resolveExportedName(prog, defs, named[1].sourceFile,
                           named[1].exportedName, depth + 1, seen1)
                  ELSE LET stars == SelectSeq(prog[file].reExports,
                                        LAMBDA r : r.type = "star")
                           viaStar == ResolveStars(prog, defs, name, stars,
                                                   depth + 1, seen1)
                           imported == SelectSeq(prog[file].imports,
                                        LAMBDA i : i.localName = name)
                       IN  IF viaStar.result # Null THEN viaStar
                           ELSE IF imported # <<>>
                           THEN resolveExportedName(prog, defs,
                                    imported[1].sourceFile,
                                    imported[1].exportedName, depth + 1,
                                    viaStar.visited)
                           ELSE [result |-> Null, visited |-> viaStar.visited]

\* variant: a local name is resolved through the file's import of that name
LocalResolutionViaImport(prog, usage) ==
    LET imported == SelectSeq(prog[usage.file].imports,
                        LAMBDA i : i.localName = usage.localName)
    IN  usage @@ [resolvedName |-> usage.localName,
                  definitionFile |-> IF imported = <<>> THEN usage.file
                                     ELSE imported[1].sourceFile]

\* step 1: the name is defined in the usage's own file
LocalResolution(prog, usage) ==
    usage @@ [resolvedName |-> usage.localName, definitionFile |-> usage.file]

\* variant: a usage that cannot be traced is resolved to its own name in
\* its own file
ResolveUsageGuess(prog, defs, usage) ==
    <<usage @@ [resolvedName |-> usage.localName, definitionFile |-> usage.file]>>

\* the resolution of one usage: a list with the ResolvedUsage, or empty
ResolveUsage(prog, defs, usage) ==
    IF IsDefinedIn(defs, usage.file, usage.localName)
    THEN <<LocalResolution(prog, usage)>>
    ELSE IF usage.file \notin DOMAIN prog THEN <<>>
    ELSE LET imported == SelectSeq(prog[usage.file].imports,
                             LAMBDA i : i.localName = usage.localName)
         IN  IF imported = <<>> THEN <<>>
             ELSE LET found == resolveExportedName(prog, defs,
                                   imported[1].sourceFile,
                                   imported[1].exportedName, 1, {}).result
                  IN  IF found = Null THEN <<>>
                      ELSE <<usage @@ [resolvedName |-> found.resolvedName,
                                       definitionFile |-> found.definitionFile]>>

RECURSIVE resolveUsages(_, _, _)
resolveUsages(prog, defs, usages) ==
    IF usages = <<>> THEN <<>>
    ELSE ResolveUsage(prog, defs, Head(usages))
         \o resolveUsages(prog, defs, Tail(usages))

----------------------------------------------------------------------------
(* Program family of the writer pipeline: an atom, a selector reading it,  *)
(* one wrapper hook in its own file, an index file that may re-export it,  *)
(* and a consumer component with a few setter declarations and calls.      *)

SelectorsSrc == "/src/selectors.ts"
AtomsSrc == "/src/atoms.ts"
WrapperSrc == "/src/wrapper-hooks.ts"
IndexSrc == "/src/index.ts"
ConsumerSrc == "/src/consumer.tsx"

\* globFiles: the scanned files in scan order
ScanOrder == <<AtomsSrc, ConsumerSrc, IndexSrc, SelectorsSrc, WrapperSrc>>

FooState == Identifier("fooState")

\* import { ... } from 'recoil'
RecoilHooks ==
    [h \in {"useRecoilValue", "useSetRecoilState", "useResetRecoilState",
            "useRecoilState"} |-> h]

ImportRecord(localName, sourceFile) ==
    [localName |-> localName, exportedName |-> localName, sourceFile |-> sourceFile]

SourceFile(recoilImports, imports, reExports, ast) ==
    [recoilImports |-> recoilImports, imports |-> imports,
     reExports |-> reExports, ast |-> ast]

\* get: ({get}) => { return get(fooState); }
SelectorGetBody ==
    FunctionBody(<<ReturnStatement(CallExpression("get", FooState, 4))>>)

PipelineDefinitions ==
    << [name |-> "fooState", kind |-> "atom", file |-> AtomsSrc, line |-> 1,
        getBodyAst |-> Undefined],
       [name |-> "fooSelector", kind |-> "selector", file |-> SelectorsSrc,
        line |-> 3, getBodyAst |-> SelectorGetBody] >>

WrapperShapes == {"arrow", "arrowNextLine", "block", "tuple", "object"}

\* the wrapper hook `useSetFoo`, declared on line 3
WrapperAst(shape) ==
    IF shape = "arrow"
    THEN \* export const useSetFoo = () => useSetRecoilState(fooState);
         VariableDeclarator(Identifier("useSetFoo"),
             ArrowFunctionExpression(
                 CallExpression("useSetRecoilState", FooState, 3)), 3)
    ELSE IF shape = "arrowNextLine"
    THEN \* export const useSetFoo = () =>
         \*   useSetRecoilState(fooState);
         VariableDeclarator(Identifier("useSetFoo"),
             ArrowFunctionExpression(
                 CallExpression("useSetRecoilState", FooState, 4)), 3)
    ELSE IF shape = "block"
    THEN \* export function useSetFoo() {
         \*   return useSetRecoilState(fooState);
         \* }
         FunctionDeclaration("useSetFoo", 3,
             FunctionBody(<<ReturnStatement(
                 CallExpression("useSetRecoilState", FooState, 4))>>))
    ELSE IF shape = "tuple"
    THEN \* export const useSetFoo = () => useRecoilState(fooState);
         VariableDeclarator(Identifier("useSetFoo"),
             ArrowFunctionExpression(
                 CallExpression("useRecoilState", FooState, 3)), 3)
    ELSE \* export const useSetFoo = () => ({set: useSetRecoilState(fooState)});
         VariableDeclarator(Identifier("useSetFoo"),
             ArrowFunctionExpression(ObjectExpression(
                 <<CallExpression("useSetRecoilState", FooState, 3)>>)), 3)

ImportPaths == {"direct", "named", "star"}

\* index.ts: nothing, `export {useSetFoo} from`, or `export * from`
IndexReExports(via) ==
    IF via = "named"
    THEN <<[type |-> "named", localName |-> "useSetFoo",
            exportedName |-> "useSetFoo", sourceFile |-> WrapperSrc]>>
    ELSE IF via = "star"
    THEN <<[type |-> "star", localName |-> "*", exportedName |-> "*",
            sourceFile |-> WrapperSrc]>>
    ELSE <<>>

SetterCallees ==
    {"useSetFoo", "useSetRecoilState", "useResetRecoilState", "useRecoilState"}

DeclaratorChoices == {"Identifier", "ArrayPattern"} \X SetterCallees

\* `const setFoo = callee(..)` or `const [foo, setFoo] = callee(..)`
ConsumerDeclarator(choice, line) ==
    VariableDeclarator(
        IF choice[1] = "Identifier" THEN Identifier("setFoo")
        ELSE ArrayPattern(<<"foo", "setFoo">>),
        CallExpression(choice[2],
            IF choice[2] = "useSetFoo" THEN Undefined ELSE FooState, line),
        line)

\* function Consumer() { <declarations>; setFoo(..); ... }
ConsumerAst(choices, calls) ==
    FunctionDeclaration("Consumer", 5, FunctionBody(
        [i \in 1..Len(choices) |-> ConsumerDeclarator(choices[i], 10 + i)]
        \o [j \in 1..calls |-> CallExpression("setFoo", Undefined, 20 + j)]))

PipelineProgram(shape, via, choices, calls) ==
    (AtomsSrc :> SourceFile(<<>>, <<>>, <<>>,
        Program(<<VariableDeclarator(FooState,
                      CallExpression("atom", Undefined, 1), 1)>>)))
    @@ (SelectorsSrc :> SourceFile(<<>>, <<ImportRecord("fooState", AtomsSrc)>>,
        <<>>, Program(<<VariableDeclarator(Identifier("fooSelector"),
                      CallExpression("selector", Undefined, 3), 3)>>)))
    @@ (WrapperSrc :> SourceFile(RecoilHooks,
        <<ImportRecord("fooState", AtomsSrc)>>, <<>>,
        Program(<<WrapperAst(shape)>>)))
    @@ (IndexSrc :> SourceFile(<<>>, <<>>, IndexReExports(via), Program(<<>>)))
    @@ (ConsumerSrc :> SourceFile(RecoilHooks,
        << ImportRecord("fooState", AtomsSrc),
           ImportRecord("useSetFoo",
               IF via = "direct" THEN WrapperSrc ELSE IndexSrc) >>,
        <<>>, Program(<<ConsumerAst(choices, calls)>>)))

EmptyGraph ==
    [definitions |-> <<>>, dependentSelectors |-> <<>>, componentUsages |-> <<>>]

InitPipeline ==
    /\ \/ \E shape \in WrapperShapes, via \in ImportPaths, calls \in 0..MaxCalls :
          \E choices \in SeqsUpTo(DeclaratorChoices, MaxDeclarators) :
             /\ program = PipelineProgram(shape, via, choices, calls)
             /\ atomName = "fooState"
       \/ /\ program = PipelineProgram("arrow", "direct", <<>>, 0)
          /\ atomName = "barState"
    /\ graph = EmptyGraph
    /\ coverageOptions = Undefined
    /\ pc = "passes"
    /\ queue = <<>>
    /\ visited = {}
    /\ transitive = <<>>
    /\ result = Pending
    /\ previous = Pending
    /\ cursor = 1
    /\ setterBindings = <<>>
    /\ wrapperCache = <<>>
    /\ parsedFileCache = <<>>
    /\ analysisLog = <<>>
    /\ resolvedFactoryKeys = {}
    /\ runtimeCallsites = <<>>
    /\ StagesIdle

----------------------------------------------------------------------------
(* impact-cli main, step by step *)

\* steps 4-7: usages collected, resolved, and partitioned into the graph
RunPasses ==
    /\ pc = "passes"
    /\ graph' = buildDependencyGraph(PipelineDefinitions,
                    resolveUsages(program, PipelineDefinitions,
                        collectUsages(program, ScanOrder, PipelineDefinitions)))
    /\ pc' = "bind"
    /\ UNCHANGED <<atomName, coverageOptions>>
    /\ UNCHANGED impactVars
    /\ UNCHANGED pipelineVars
    /\ UNCHANGED stageVars

\* --writer-mode legacy: step 7b is skipped and no options are passed
SkipBindings ==
    /\ pc = "bind"
    /\ cursor = 1
    /\ pc' = "start"
    /\ UNCHANGED <<graph, atomName, coverageOptions>>
    /\ UNCHANGED impactVars
    /\ UNCHANGED pipelineVars
    /\ UNCHANGED stageVars

\* buildSetterBindings lines 735-740: the maps of the run are created and
\* the parsed-file cache is cleared
StartBindings ==
    /\ pc = "bind"
    /\ setterBindings' = <<>>
    /\ wrapperCache' = <<>>
    /\ resolvedFactoryKeys' = {}
    /\ parsedFileCache' = ClearParsedFiles(parsedFileCache)
    /\ cursor' = 1
    /\ pc' = "binding"
    /\ analysisLog' = Append(analysisLog, <<>>)
    /\ UNCHANGED <<graph, atomName, coverageOptions, program, runtimeCallsites>>
    /\ UNCHANGED impactVars
    /\ UNCHANGED stageVars

\* buildSetterBindings: the walk callback for one call-initialised declarator
BindDeclarator ==
    /\ pc = "binding"
    /\ LET view == FileView(parsedFileCache, program) IN
       /\ cursor <= Len(DeclaratorsOf(view, ScanOrder))
       /\ LET item == DeclaratorsOf(view, ScanOrder)[cursor]
              file == item[1]
              declarator == item[2]
              hookAliases == getRecoilHookAliases(view[file])
              resolved == resolveHookWriteBinding(view, declarator.init, file,
                                                  hookAliases, wrapperCache)
          IN  /\ wrapperCache' = resolved.cache
              /\ analysisLog' = [analysisLog EXCEPT ![Len(analysisLog)] =
                                      @ \o resolved.analysed]
              /\ parsedFileCache' = CacheFiles(parsedFileCache, program,
                     ScannedUpTo(ScanOrder, file)
                     \cup ParsedByDeclarator(view, declarator.init, file, hookAliases))
              /\ IF resolved.binding = Undefined
                 THEN UNCHANGED <<setterBindings, resolvedFactoryKeys>>
                 ELSE /\ setterBindings' = bindSetterIdentifiers(declarator,
                              resolved.binding, file, setterBindings)
                      /\ resolvedFactoryKeys' = TrackResolvedFactory(view,
                              declarator.init, file, hookAliases, resolvedFactoryKeys)
    /\ cursor' = cursor + 1
    /\ UNCHANGED <<graph, atomName, coverageOptions, pc, program, runtimeCallsites>>
    /\ UNCHANGED impactVars
    /\ UNCHANGED stageVars

\* the rest of the scan list is parsed and buildSetterBindings returns; then
\* collectRuntimeWriteCallsites, which reads the files itself, and the impact
\* options built from its output
CollectCallsites ==
    /\ pc = "binding"
    /\ cursor > Len(DeclaratorsOf(FileView(parsedFileCache, program), ScanOrder))
    /\ parsedFileCache' = CacheFiles(parsedFileCache, program, Range(ScanOrder))
    /\ runtimeCallsites' =
           collectRuntimeWriteCallsites(program, ScanOrder, setterBindings)
    /\ coverageOptions' = [runtimeCallsites |-> runtimeCallsites',
                           resolvedFactoryKeys |-> resolvedFactoryKeys]
    /\ pc' = "start"
    /\ UNCHANGED <<graph, atomName, program, cursor, setterBindings,
                   wrapperCache, analysisLog, resolvedFactoryKeys>>
    /\ UNCHANGED impactVars
    /\ UNCHANGED stageVars

NextPipeline ==
    \/ RunPasses
    \/ SkipBindings
    \/ StartBindings
    \/ BindDeclarator
    \/ CollectCallsites
    \/ ReturnNotFound
    \/ Begin
    \/ LoopIteration
    \/ Finish

\* the CLI run over the program family
SpecPipeline == InitPipeline /\ [][NextPipeline]_vars

----------------------------------------------------------------------------
(* Properties of the writer pipeline *)

\* a coverage-mode run that returned an impact result
CoverageRunDone ==
    pc = "done" /\ coverageOptions # Undefined /\ result # Null /\ result # Threw

\* the legacy (factory-only) write list of the target
LegacyWriteList == analyzeAtomImpact(graph, atomName, Undefined).direct.setters

\* C1: in coverage mode every factory write usage of the target's legacy
\* write list is still represented in the pipeline's write list, either by
\* itself as a fallback entry or by at least one runtime entry: no write
\* path vanishes after reconciliation.
NoWritePathVanishes ==
    CoverageRunDone =>
        \A i \in DOMAIN LegacyWriteList :
            \E j \in DOMAIN result.direct.setters :
                LET f == LegacyWriteList[i]
                    w == result.direct.setters[j]
                IN  \/ /\ w.writerKind = "fallback"
                       /\ w.file = f.file
                       /\ w.line = f.line
                    \/ w.writerKind = "runtime"

\* the consumer's declarators `const setFoo = useSetRecoilState(..)` or
\* `const setFoo = useResetRecoilState(..)` whose variable is called
DirectSetterSites ==
    {item[2].line : item \in
        {d \in Range(DeclaratorsOfFile(program, ConsumerSrc)) :
            /\ d[2].id.type = "Identifier"
            /\ d[2].init.callee.name \in setterHookNames
            /\ \E k \in DOMAIN runtimeCallsites :
                  /\ runtimeCallsites[k].file = ConsumerSrc
                  /\ runtimeCallsites[k].calleeName = d[2].id.name}}

\* C9: a direct setter-hook call whose setter variable has a runtime
\* callsite is marked resolved by buildSetterBindings, and the coverage-mode
\* write list does not list that hook call as a fallback entry.
DirectHookSiteIsResolved ==
    CoverageRunDone =>
        \A line \in DirectSetterSites :
            /\ <<ConsumerSrc, line>> \in resolvedFactoryKeys
            /\ \A j \in DOMAIN result.direct.setters :
                  ~ /\ result.direct.setters[j].writerKind = "fallback"
                    /\ result.direct.setters[j].file = ConsumerSrc
                    /\ result.direct.setters[j].line = line

\* the file:line of every known write usage (the factory sites)
FactorySites ==
    UNION {{<<u.file, u.line>> : u \in Range(FilterType(UsagesOf(graph, name), "setter"))}
           : name \in DOMAIN graph.componentUsages}

\* C10: every (file, line) recorded in resolvedFactoryKeys through the
\* wrapper path is the file:line of the write usage of the setter-hook call
\* inside the wrapper, whatever the wrapper's shape.
ResolvedKeysAreFactorySites ==
    resolvedFactoryKeys \subseteq FactorySites

\* the wrapper scenario: a one-line arrow wrapper, one `const setFoo =
\* useSetFoo()` in the consumer, and one call `setFoo(1)`
WrapperScenario ==
    \E via \in ImportPaths :
        program = PipelineProgram("arrow", via, <<<<"Identifier", "useSetFoo">>>>, 1)

\* C11: in the wrapper scenario the pipeline yields exactly one runtime
\* callsite for fooState, at the consumer's call line, and the factory site
\* inside the wrapper file is absent from fooState's final write list.
WrapperScenarioShowsRuntimeOnly ==
    (WrapperScenario /\ CoverageRunDone) =>
        /\ runtimeCallsites =
               <<[atomName |-> "fooState", file |-> ConsumerSrc, line |-> 21,
                  calleeName |-> "setFoo"]>>
        /\ Len(result.direct.setters) = 1
        /\ result.direct.setters[1].writerKind = "runtime"
        /\ result.direct.setters[1].file = ConsumerSrc
        /\ result.direct.setters[1].line = 21
        /\ \A j \in DOMAIN result.direct.setters :
              result.direct.setters[j].file # WrapperSrc

WrapperScenarioAnalysed ==
    /\ WrapperScenario
    /\ CoverageRunDone
    /\ atomName = "fooState"
    /\ <<WrapperSrc, 3>> \in resolvedFactoryKeys
    /\ Len(LegacyWriteList) = 1

----------------------------------------------------------------------------
(* Input family of resolveUsages: a user file importing from f1, a chain   *)
(* f1 -> f2 -> ... -> fn of re-exports of one kind, an optional definition *)
(* in fn, and an optional extra edge (a back edge or a shortcut).          *)

UserSrc == "/src/user.tsx"

ChainFile(i) ==
    <<"/src/f1.ts", "/src/f2.ts", "/src/f3.ts", "/src/f4.ts", "/src/f5.ts",
      "/src/f6.ts", "/src/f7.ts", "/src/f8.ts", "/src/f9.ts">>[i]

\* export {fooState} from / export * from / import {fooState} from
HopKinds == {"named", "star", "import"}

NoEdge == <<0, 0, FALSE>>

\* extra edges <<from, to, listed first>>; a second edge in one file is a
\* wildcard re-export, the last file of the chain may point back with any kind
ExtraEdges(n, kind, defined) ==
    {NoEdge} \cup
    {e \in (1..n) \X (1..n) \X BOOLEAN :
        /\ e[1] # e[2]
        /\ \/ kind = "star"
           \/ e[1] = n /\ ~defined}

ReExportTo(kind, target) ==
    [type |-> kind, localName |-> "fooState", exportedName |-> "fooState",
     sourceFile |-> ChainFile(target)]

\* the targets of file i, in source order
TargetsOf(i, n, extra) ==
    LET main == IF i < n THEN <<i + 1>> ELSE <<>>
        more == IF extra[1] = i THEN <<extra[2]>> ELSE <<>>
    IN  IF extra[3] THEN more \o main ELSE main \o more

ChainSource(i, n, kind, extra) ==
    LET targets == TargetsOf(i, n, extra)
        records == [k \in 1..Len(targets) |-> ReExportTo(kind, targets[k])]
    IN  IF kind = "import"
        THEN SourceFile(<<>>,
                 [k \in 1..Len(targets) |->
                     [localName |-> "fooState", exportedName |-> "fooState",
                      sourceFile |-> ChainFile(targets[k])]],
                 <<>>, Program(<<>>))
        ELSE SourceFile(<<>>, <<>>, records, Program(<<>>))

\* import {fooState, fooState as fooAlias, localState} from './f1'
UserSource ==
    SourceFile(RecoilHooks,
        << [localName |-> "fooState", exportedName |-> "fooState",
            sourceFile |-> ChainFile(1)],
           [localName |-> "fooAlias", exportedName |-> "fooState",
            sourceFile |-> ChainFile(1)],
           [localName |-> "localState", exportedName |-> "localState",
            sourceFile |-> ChainFile(1)] >>,
        <<>>, Program(<<>>))

ResolveProgram(n, kind, extra) ==
    [f \in {UserSrc} \cup {ChainFile(i) : i \in 1..n} |->
        IF f = UserSrc THEN UserSource
        ELSE ChainSource(CHOOSE i \in 1..n : ChainFile(i) = f, n, kind, extra)]

AtomDefinition(name, file, line) ==
    [name |-> name, kind |-> "atom", file |-> file, line |-> line,
     getBodyAst |-> Undefined]

\* localState is defined in the user file and, separately, in f1
ResolveDefinitions(n, defined) ==
    << AtomDefinition("localState", UserSrc, 2),
       AtomDefinition("localState", ChainFile(1), 2) >>
    \o (IF defined THEN <<AtomDefinition("fooState", ChainFile(n), 1)>> ELSE <<>>)

UsageNames == {"fooState", "fooAlias", "localState", "ghostState"}

ReaderUsages(names) ==
    [i \in 1..Len(names) |->
        [atomName |-> names[i], localName |-> names[i], type |-> "reader",
         hook |-> "useRecoilValue", file |-> UserSrc, line |-> 10 + i]]

\* the inputs of resolveUsages over chains of at most `hops` files
ResolveInputs(hops) ==
    \E n \in 1..hops, kind \in HopKinds, defined \in BOOLEAN :
    \E extra \in ExtraEdges(n, kind, defined) :
    \E names \in SeqsUpTo(UsageNames, MaxResolveUsages) :
       /\ program = ResolveProgram(n, kind, extra)
       /\ extraction = [recoilDefinitions |-> ResolveDefinitions(n, defined),
                        jotaiDefinitions |-> <<>>, jotaiImports |-> <<>>]
       /\ collected = ReaderUsages(names)

\* everything but the inputs, at the entry of resolveUsages
ResolveEntry ==
    /\ resolution = <<>>
    /\ cursor = 1
    /\ pc = "resolve"
    /\ violations = <<>>
    /\ exitCode = Pending
    /\ targetDir = ScannedDir
    /\ graph = EmptyGraph
    /\ atomName = "fooState"
    /\ coverageOptions = Undefined
    /\ queue = <<>>
    /\ visited = {}
    /\ transitive = <<>>
    /\ result = Pending
    /\ previous = Pending
    /\ setterBindings = <<>>
    /\ wrapperCache = <<>>
    /\ parsedFileCache = <<>>
    /\ analysisLog = <<>>
    /\ resolvedFactoryKeys = {}
    /\ runtimeCallsites = <<>>

InitResolve == ResolveInputs(MaxHops) /\ ResolveEntry

\* short chains: every cycle between two or three files
InitResolveCycles == ResolveInputs(MaxCycleFiles) /\ ResolveEntry

----------------------------------------------------------------------------
(* resolveUsages, step by step *)

\* lines 461-512: the loop body for one usage
ResolveNextUsage ==
    /\ pc = "resolve"
    /\ cursor <= Len(collected)
    /\ resolution' = resolution \o
           ResolveUsage(program, extraction.recoilDefinitions, collected[cursor])
    /\ cursor' = cursor + 1
    /\ UNCHANGED <<graph, atomName, coverageOptions, pc, program, setterBindings,
                   wrapperCache, parsedFileCache, analysisLog,
                   resolvedFactoryKeys, runtimeCallsites,
                   extraction, collected, violations, exitCode,
                   targetDir>>
    /\ UNCHANGED impactVars

\* line 514: the list is returned
ReturnResolved ==
    /\ pc = "resolve"
    /\ cursor > Len(collected)
    /\ pc' = "resolved"
    /\ UNCHANGED <<graph, atomName, coverageOptions>>
    /\ UNCHANGED impactVars
    /\ UNCHANGED pipelineVars
    /\ UNCHANGED stageVars

NextResolve == ResolveNextUsage \/ ReturnResolved

SpecResolve == InitResolve /\ [][NextResolve]_vars

\* the call is synchronous: once started it runs to its return
SpecResolveFair ==
    InitResolveCycles /\ [][NextResolve]_vars /\ WF_vars(NextResolve)

----------------------------------------------------------------------------
(* Properties of resolveUsages *)

\* the entries of the output produced for the usage at index i of the input
EntriesFor(i) ==
    SelectSeq(resolution, LAMBDA r : r.line = collected[i].line)

\* the input usages already handled
Handled == 1..(cursor - 1)

\* C12: a usage whose local name is defined in its own file is resolved to
\* that name in that file, whatever the file imports under the same name.
LocalDefinitionResolvesLocally ==
    \A i \in Handled \cap DOMAIN collected :
        IsDefinedIn(extraction.recoilDefinitions, collected[i].file,
                    collected[i].localName)
        => /\ Len(EntriesFor(i)) = 1
           /\ EntriesFor(i)[1].resolvedName = collected[i].localName
           /\ EntriesFor(i)[1].definitionFile = collected[i].file
           /\ EntriesFor(i)[1].localName = collected[i].localName

LocalDefinitionResolved ==
    /\ pc = "resolved"
    /\ \E i \in DOMAIN collected :
          /\ collected[i].localName = "localState"
          /\ \E k \in DOMAIN program[UserSrc].imports :
                program[UserSrc].imports[k].localName = "localState"
          /\ IsDefinedIn(extraction.recoilDefinitions, ChainFile(1), "localState")
          /\ EntriesFor(i) # <<>>

\* the chain is two files that re-export fooState from each other, and
\* neither defines it
MutualCycle ==
    /\ DOMAIN program = {UserSrc, ChainFile(1), ChainFile(2)}
    /\ \E kind \in HopKinds :
          program = ResolveProgram(2, kind, <<2, 1, FALSE>>)
    /\ ~IsDefinedIn(extraction.recoilDefinitions, ChainFile(2), "fooState")

\* the usages whose import leads into the chain
IntoChain == {i \in DOMAIN collected : collected[i].localName \in {"fooState", "fooAlias"}}

CycleUsagesDropped ==
    /\ pc = "resolved"
    /\ MutualCycle => \A i \in IntoChain : EntriesFor(i) = <<>>

\* C13: with a mutual re-export cycle of two files, resolveUsages returns,
\* and every usage whose import leads into the cycle is absent from the
\* output.
CycleResolutionTerminates == <>CycleUsagesDropped

CycleUsageResolved ==
    /\ pc = "resolved"
    /\ MutualCycle
    /\ IntoChain # {}
    /\ \A i \in IntoChain : EntriesFor(i) = <<>>

\* the files a lookup of fooState in `file` may continue into
NextFiles(file) ==
    IF file \notin DOMAIN program THEN {}
    ELSE {r.sourceFile : r \in Range(program[file].reExports)}
         \cup {i.sourceFile : i \in {x \in Range(program[file].imports) :
                                        x.localName = "fooState"}}

\* the files at depth d, the import's source file being depth 1
RECURSIVE FilesAtDepth(_)
FilesAtDepth(d) ==
    IF d = 1 THEN {ChainFile(1)}
    ELSE UNION {NextFiles(f) : f \in FilesAtDepth(d - 1)}

\* a definition of fooState sits at depth d or less
DefinedWithin(d) ==
    \E k \in 1..d : \E f \in FilesAtDepth(k) :
        IsDefinedIn(extraction.recoilDefinitions, f, "fooState")

ShortPathAlwaysResolves ==
    \A i \in Handled \cap IntoChain :
        DefinedWithin(maxChainDepth) =>
            \E k \in DOMAIN resolution :
                /\ resolution[k].line = collected[i].line
                /\ resolution[k].resolvedName = "fooState"

\* the name under which the usage at index i is exported by its source
ExportedNameOf(i) ==
    IF collected[i].localName = "fooAlias" THEN "fooState"
    ELSE collected[i].localName

\* C15: every entry of the output names an extracted definition located in
\* the entry's definitionFile, and a usage for which no such definition
\* exists leaves no entry (the output stays a plain list: no error value).
ResolvedUsagesNameDefinitions ==
    /\ \A k \in DOMAIN resolution :
          \E d \in Range(extraction.recoilDefinitions) :
              /\ d.name = resolution[k].resolvedName
              /\ d.file = resolution[k].definitionFile
    /\ \A i \in Handled \cap DOMAIN collected :
          (\A d \in Range(extraction.recoilDefinitions) : d.name # ExportedNameOf(i))
          => EntriesFor(i) = <<>>
    /\ Len(resolution) <= Len(collected)

UnresolvableUsageDropped ==
    /\ pc = "resolved"
    /\ Len(collected) = 2
    /\ collected[1].localName = "ghostState"
    /\ collected[2].localName = "fooAlias"
    /\ Len(resolution) = 1
    /\ resolution[1].resolvedName = "fooState"
    /\ resolution[1].line = collected[2].line

----------------------------------------------------------------------------
(* Input family of buildDependencyGraph: the usages of a user file that    *)
(* imports through f1 from f2, read by hooks or inside the get bodies of   *)
(* two selectors of the user file, resolved by resolveUsages.              *)

GraphDefinitions ==
    ResolveDefinitions(2, TRUE)
    \o << [name |-> "userSelector", kind |-> "selector", file |-> UserSrc,
           line |-> 3, getBodyAst |-> Undefined],
          [name |-> "otherSelector", kind |-> "selector", file |-> UserSrc,
           line |-> 4, getBodyAst |-> Undefined] >>

\* how a name is read: by a hook, or by get() inside one of the selectors
ReadKinds == {"hook", "userSelector", "otherSelector"}

GraphUsage(name, how, line) ==
    IF how = "hook"
    THEN [atomName |-> name, localName |-> name, type |-> "reader",
          hook |-> "useRecoilValue", file |-> UserSrc, line |-> line]
    ELSE [atomName |-> name, localName |-> name, type |-> "reader",
          hook |-> "get(selector)", file |-> UserSrc, line |-> line,
          enclosingDefinition |-> how]

InitGraph ==
    /\ \E reads \in SeqsUpTo(UsageNames \X ReadKinds, MaxGraphUsages) :
          collected = [i \in 1..Len(reads) |->
                          GraphUsage(reads[i][1], reads[i][2], 10 + i)]
    /\ program = ResolveProgram(2, "named", NoEdge)
    /\ extraction = [recoilDefinitions |-> GraphDefinitions,
                     jotaiDefinitions |-> <<>>, jotaiImports |-> <<>>]
    /\ ResolveEntry

----------------------------------------------------------------------------
(* buildDependencyGraph, step by step *)

\* lines 11-18: the three maps are created and the definitions indexed
IndexAllDefinitions ==
    /\ pc = "resolved"
    /\ graph' = [EmptyGraph EXCEPT !.definitions =
                     IndexDefinitions(<<>>, extraction.recoilDefinitions)]
    /\ cursor' = 1
    /\ pc' = "partition"
    /\ UNCHANGED <<atomName, coverageOptions, program, setterBindings,
                   wrapperCache, parsedFileCache, analysisLog,
                   resolvedFactoryKeys, runtimeCallsites>>
    /\ UNCHANGED impactVars
    /\ UNCHANGED stageVars

\* lines 21-39: the loop body for one resolved usage
PartitionNextUsage ==
    /\ pc = "partition"
    /\ cursor <= Len(resolution)
    /\ graph' = AddUsage(graph, resolution[cursor])
    /\ cursor' = cursor + 1
    /\ UNCHANGED <<atomName, coverageOptions, pc, program, setterBindings,
                   wrapperCache, parsedFileCache, analysisLog,
                   resolvedFactoryKeys, runtimeCallsites>>
    /\ UNCHANGED impactVars
    /\ UNCHANGED stageVars

\* line 41: the graph is returned
ReturnGraph ==
    /\ pc = "partition"
    /\ cursor > Len(resolution)
    /\ pc' = "graph"
    /\ UNCHANGED <<graph, atomName, coverageOptions>>
    /\ UNCHANGED impactVars
    /\ UNCHANGED pipelineVars
    /\ UNCHANGED stageVars

NextGraph ==
    \/ ResolveNextUsage
    \/ ReturnResolved
    \/ IndexAllDefinitions
    \/ PartitionNextUsage
    \/ ReturnGraph

\* resolveUsages followed by buildDependencyGraph, as the CLIs run them
SpecGraph == InitGraph /\ [][NextGraph]_vars

----------------------------------------------------------------------------
(* Properties of buildDependencyGraph *)

\* a read inside a selector body
IsDependencyRead(r) ==
    r.hook = "get(selector)" /\ "enclosingDefinition" \in DOMAIN r

ResolvedNames == {resolution[k].resolvedName : k \in DOMAIN resolution}

\* C16: every resolved usage lands in exactly one relation: a selector-body
\* read adds its enclosing selector to dependentSelectors[resolvedName], once
\* however often it reads, and every other usage is appended to
\* componentUsages[resolvedName], which ends up in input order.
UsagesArePartitioned ==
    pc = "graph" =>
        /\ DOMAIN graph.componentUsages =
               {r.resolvedName : r \in {x \in Range(resolution) : ~IsDependencyRead(x)}}
        /\ DOMAIN graph.dependentSelectors =
               {r.resolvedName : r \in {x \in Range(resolution) : IsDependencyRead(x)}}
        /\ \A name \in DOMAIN graph.componentUsages :
              graph.componentUsages[name] =
                  SelectSeq(resolution,
                      LAMBDA r : r.resolvedName = name /\ ~IsDependencyRead(r))
        /\ \A name \in DOMAIN graph.dependentSelectors :
              LET members == graph.dependentSelectors[name] IN
              /\ Range(members) =
                     {r.enclosingDefinition : r \in
                         {x \in Range(resolution) :
                             IsDependencyRead(x) /\ x.resolvedName = name}}
              /\ Cardinality(Range(members)) = Len(members)

RepeatedReadPartitioned ==
    /\ pc = "graph"
    /\ Len(resolution) = 3
    /\ resolution[1].resolvedName = "fooState" /\ IsDependencyRead(resolution[1])
    /\ resolution[2].resolvedName = "fooState" /\ ~IsDependencyRead(resolution[2])
    /\ resolution[3] = [resolution[1] EXCEPT !.line = 13]
    /\ Len(graph.dependentSelectors["fooState"]) = 1

\* C17: every key of dependentSelectors is a key of definitions.
DependentKeysAreDefined ==
    DOMAIN graph.dependentSelectors \subseteq DOMAIN graph.definitions

AliasedDependencyIndexed ==
    /\ pc = "graph"
    /\ \E k \in DOMAIN resolution :
          /\ resolution[k].localName = "fooAlias"
          /\ IsDependencyRead(resolution[k])
    /\ \E i \in DOMAIN collected :
          collected[i].localName = "ghostState" /\ IsDependencyRead(collected[i])
    /\ "fooState" \in DOMAIN graph.dependentSelectors

----------------------------------------------------------------------------
(* The collect family: files that call set() and hooks inside functions of
   every shape, collected file by file as collectUsages does *)

MaxCollectFiles == 2

CollectOrder == <<"/src/a.ts", "/src/b.ts">>

FunctionShapes == {"declaration", "arrow", "functionExpression"}

FunctionNames == InitializerNames \cup {"setupFoo"}

\* where the call sits in the function: directly in its body, or inside a
\* helper arrow or a helper function declaration in that body
Nestings == {"none", "arrow", "declaration"}

CollectCallees == {"set", "useSetRecoilState"}

FunctionItems == FunctionShapes \X FunctionNames \X Nestings \X CollectCallees

CallLine == 12

\* the body of the outer function
NestedCall(nesting, callee) ==
    LET call == CallExpression(callee, FooState, CallLine) IN
    IF nesting = "arrow"
    THEN VariableDeclarator(Identifier("helper"),
                            ArrowFunctionExpression(FunctionBody(<<call>>)), 11)
    ELSE IF nesting = "declaration"
    THEN FunctionDeclaration("helper", 11, FunctionBody(<<call>>))
    ELSE call

\* function name() {..} | const name = () => {..} | const name = function () {..}
FunctionItem(item) ==
    LET body == FunctionBody(<<NestedCall(item[3], item[4])>>) IN
    IF item[1] = "declaration" THEN FunctionDeclaration(item[2], 10, body)
    ELSE IF item[1] = "arrow"
    THEN VariableDeclarator(Identifier(item[2]), ArrowFunctionExpression(body), 10)
    ELSE VariableDeclarator(Identifier(item[2]), FunctionExpression(body), 10)

CollectProgram(items) ==
    [f \in {CollectOrder[i] : i \in 1..Len(items)} |->
        LET i == CHOOSE k \in 1..Len(items) : CollectOrder[k] = f IN
        SourceFile(RecoilHooks, <<>>, <<>>, Program(<<FunctionItem(items[i])>>))]

\* the files argument of collectUsages
CollectedFiles(prog) == SelectSeq(CollectOrder, LAMBDA f : f \in DOMAIN prog)

InitCollect ==
    /\ \E items \in SeqsUpTo(FunctionItems, MaxCollectFiles) :
          program = CollectProgram(items)
    /\ extraction = NoExtraction
    /\ collected = <<>>
    /\ resolution = <<>>
    /\ cursor = 1
    /\ pc = "collect"
    /\ violations = <<>>
    /\ exitCode = Pending
    /\ targetDir = ScannedDir
    /\ graph = EmptyGraph
    /\ atomName = "fooState"
    /\ coverageOptions = Undefined
    /\ queue = <<>>
    /\ visited = {}
    /\ transitive = <<>>
    /\ result = Pending
    /\ previous = Pending
    /\ setterBindings = <<>>
    /\ wrapperCache = <<>>
    /\ parsedFileCache = <<>>
    /\ analysisLog = <<>>
    /\ resolvedFactoryKeys = {}
    /\ runtimeCallsites = <<>>

\* lines 776-783: the loop body for one file
CollectNextFile ==
    /\ pc = "collect"
    /\ cursor <= Len(CollectedFiles(program))
    /\ collected' = collected \o collectFromFile(program, CollectedFiles(program)[cursor])
    /\ cursor' = cursor + 1
    /\ UNCHANGED <<graph, atomName, coverageOptions, pc, program, setterBindings,
                   wrapperCache, parsedFileCache, analysisLog,
                   resolvedFactoryKeys, runtimeCallsites,
                   extraction, resolution, violations, exitCode,
                   targetDir>>
    /\ UNCHANGED impactVars

\* lines 786-788: the selector bodies are walked and the list is returned
ReturnCollected ==
    /\ pc = "collect"
    /\ cursor > Len(CollectedFiles(program))
    /\ collected' = collected \o collectFromSelectorBodies(extraction.recoilDefinitions)
    /\ pc' = "collected"
    /\ UNCHANGED <<graph, atomName, coverageOptions, cursor, program, setterBindings,
                   wrapperCache, parsedFileCache, analysisLog,
                   resolvedFactoryKeys, runtimeCallsites,
                   extraction, resolution, violations, exitCode,
                   targetDir>>
    /\ UNCHANGED impactVars

NextCollect == CollectNextFile \/ ReturnCollected

SpecCollect == InitCollect /\ [][NextCollect]_vars

----------------------------------------------------------------------------
(* Properties of the collect family *)

\* is the call site inside a function whose name starts with "initialize"
isInsideInitializer(ancestors) ==
    \E i \in 1..Len(ancestors) :
       LET ancestor == ancestors[i] IN
       \/ /\ ancestor.type = "FunctionDeclaration"
          /\ ancestor.id.type = "Identifier"
          /\ StartsWithInitialize(ancestor.id.name)
       \/ /\ ancestor.type = "VariableDeclarator"
          /\ ancestor.id.type = "Identifier"
          /\ StartsWithInitialize(ancestor.id.name)
       \/ /\ ancestor.type = "FunctionExpression"
          /\ ancestor.id # Null
          /\ ancestor.id.type = "Identifier"
          /\ StartsWithInitialize(ancestor.id.name)

\* the lines of the bare set() calls that sit inside an initialize* function
RECURSIVE InitializerSetLines(_, _)
InitializerSetLines(node, ancestors) ==
    LET path == Append(ancestors, node) IN
    (IF /\ node.type = "CallExpression"
        /\ node.callee.type = "Identifier"
        /\ node.callee.name = "set"
        /\ isInsideInitializer(path)
     THEN {node.line} ELSE {})
    \cup UNION {InitializerSetLines(node.children[i], path) :
                   i \in 1..Len(node.children)}

UsagesAt(file, line, type) ==
    {i \in 1..Len(collected) : /\ collected[i].file = file
                               /\ collected[i].line = line
                               /\ collected[i].type = type}

\* C18: once the usages are collected, every bare set() call inside a function
\* declaration or a variable-bound function named initialize* has an
\* "initializer" usage and no "setter" usage
BareSetInInitializerIsInitializer ==
    pc = "collected" =>
       \A f \in DOMAIN program :
          \A line \in InitializerSetLines(program[f].ast, <<>>) :
             /\ UsagesAt(f, line, "initializer") # {}
             /\ UsagesAt(f, line, "setter") = {}

\* the half of the rule the walk implements: function declarations
DeclaredInitializerCollected ==
    pc = "collected" =>
       \A f \in DOMAIN program :
          LET top == program[f].ast.children[1] IN
          (/\ top.type = "FunctionDeclaration"
           /\ StartsWithInitialize(top.id.name)
           /\ top.body.children[1].type = "CallExpression"
           /\ top.body.children[1].callee.name = "set")
          => /\ UsagesAt(f, CallLine, "initializer") # {}
             /\ UsagesAt(f, CallLine, "setter") = {}

----------------------------------------------------------------------------
(* checks.ts *)

Violation(check, severity, name, file, line) ==
    [check |-> check, severity |-> severity, atomOrSelectorName |-> name,
     location |-> [file |-> file, line |-> line]]

\* lines 38-54 and 200-216: the get() bodies of the definitions
BodiesToCheck(defs) ==
    LET bodyOf(def) ==
           (IF def.kind \in {"selector", "selectorFamily"} /\ def.getBodyAst # Null
            THEN <<[ast |-> def.getBodyAst, definition |-> def]>> ELSE <<>>)
        \o (IF def.kind \in {"atom", "atomFamily"} /\ def.inlineDefaultGetBody # Null
            THEN <<[ast |-> def.inlineDefaultGetBody, definition |-> def]>> ELSE <<>>)
    IN  Flatten([i \in 1..Len(defs) |-> bodyOf(defs[i])])

JotaiLocalNames(jotaiImports, file) ==
    {imp.localName : imp \in {x \in Range(jotaiImports) : x.file = file}}

\* lines 76-137: the walk of one body; localVariableNames grows as the
\* declarators are entered
RECURSIVE CrossSystemWalk(_, _, _, _)
CrossSystemWalk(nodes, localVariableNames, jotai, definition) ==
    IF nodes = <<>> THEN <<>>
    ELSE LET node == Head(nodes)
             locals == IF /\ node.type = "VariableDeclarator"
                          /\ node.id.type = "Identifier"
                          /\ \/ node.init.type # "Identifier"
                             \/ node.init.name \notin jotai
                       THEN localVariableNames \cup {node.id.name}
                       ELSE localVariableNames
             found == IF /\ node.type = "Identifier"
                         /\ node.name \notin locals
                         /\ node.name \in jotai
                      THEN \* line 110: the definition's line stands when the
                           \* source of the file is not read
                           <<Violation(1, "error", definition.name,
                                       definition.file, definition.line)>>
                      ELSE <<>>
         IN  found \o CrossSystemWalk(Tail(nodes), locals, jotai, definition)

checkCrossSystemBoundary(ext) ==
    LET jotaiNames == {d.name : d \in Range(ext.jotaiDefinitions)}
        bodies == BodiesToCheck(ext.recoilDefinitions)
    IN  Flatten([i \in 1..Len(bodies) |->
            CrossSystemWalk(Walk(bodies[i].ast), {"get"},
                jotaiNames \cup JotaiLocalNames(ext.jotaiImports,
                                                bodies[i].definition.file),
                bodies[i].definition)])

\* lines 159-161
Readers(resolvedUsages, name) ==
    SelectSeq(resolvedUsages,
              LAMBDA u : u.resolvedName = name /\ u.type = "reader")

\* variant: initialization writes count as writes
AnySetters(resolvedUsages, name) ==
    SelectSeq(resolvedUsages,
              LAMBDA u : u.resolvedName = name /\ u.type \in {"setter", "initializer"})

\* lines 162-164
RuntimeSetters(resolvedUsages, name) ==
    SelectSeq(resolvedUsages,
              LAMBDA u : u.resolvedName = name /\ u.type = "setter")

checkOrphanedAtom(ext, resolvedUsages) ==
    LET defs == ext.recoilDefinitions
        check(def) ==
           IF def.kind \notin {"atom", "atomFamily"} THEN <<>>
           ELSE IF /\ Len(Readers(resolvedUsages, def.name)) > 0
                   /\ Len(RuntimeSetters(resolvedUsages, def.name)) = 0
                THEN <<Violation(2, "error", def.name, def.file, def.line)>>
           ELSE <<>>
    IN  Flatten([i \in 1..Len(defs) |-> check(defs[i])])

\* lines 244-279: the names read by get(X) and get(family(id)) in a body
collectGetDependencies(bodyAst) ==
    {extractAtomName(node.argument) :
        node \in {n \in Range(Walk(bodyAst)) :
                     /\ n.type = "CallExpression"
                     /\ n.callee.type = "Identifier"
                     /\ n.callee.name = "get"
                     /\ extractAtomName(n.argument) # NoName}}

checkUnusedAtom(ext, resolvedUsages) ==
    LET defs == ext.recoilDefinitions
        bodies == BodiesToCheck(defs)
        selectorDependencies ==
            UNION {collectGetDependencies(bodies[i].ast) : i \in 1..Len(bodies)}
        check(def) ==
           IF def.kind \notin {"atom", "atomFamily"} THEN <<>>
           ELSE IF /\ SelectSeq(resolvedUsages,
                                LAMBDA u : u.resolvedName = def.name) = <<>>
                   /\ def.name \notin selectorDependencies
                THEN <<Violation(3, "warning", def.name, def.file, def.line)>>
           ELSE <<>>
    IN  Flatten([i \in 1..Len(defs) |-> check(defs[i])])

runChecks(ext, resolvedUsages) ==
    checkCrossSystemBoundary(ext)
    \o checkOrphanedAtom(ext, resolvedUsages)
    \o checkUnusedAtom(ext, resolvedUsages)

(* reporter.ts *)

\* variant: any violation fails the run
getExitCodeStrict(vs) == IF vs # <<>> THEN 1 ELSE 0

getExitCode(vs) ==
    IF \E i \in 1..Len(vs) : vs[i].severity = "error" THEN 1 ELSE 0

----------------------------------------------------------------------------
(* The check family: an atom, an atom family and a selector, with every
   short list of resolved usages, run through runChecks and the exit *)

MaxCheckUsages == 3

StatesSrc == "/src/states.ts"

\* what the selector's get() body holds: no body, a Recoil read, a read of a
\* Jotai atom by its name or through an import alias, a read of a local
\* variable that shadows the Jotai atom's name
SelectorBodies == {"none", "recoil", "jotai", "jotaiImport", "shadowed"}

GetBody(name) == FunctionBody(<<ReturnStatement(CallExpression("get", name, 8))>>)

SelectorBodyAst(body) ==
    IF body = "none" THEN Null
    ELSE IF body = "recoil" THEN GetBody(FooState)
    ELSE IF body = "jotai" THEN GetBody(Identifier("fooAtom"))
    ELSE IF body = "jotaiImport" THEN GetBody(Identifier("fooAtomAlias"))
    ELSE FunctionBody(<<VariableDeclarator(Identifier("fooAtom"),
                                           CallExpression("compute", Undefined, 7), 7),
                        ReturnStatement(CallExpression("get", Identifier("fooAtom"), 8))>>)

CheckDefinitions(body) ==
    << [name |-> "fooState", kind |-> "atom", file |-> StatesSrc, line |-> 1,
        getBodyAst |-> Null, inlineDefaultGetBody |-> Null],
       [name |-> "barFamily", kind |-> "atomFamily", file |-> StatesSrc, line |-> 3,
        getBodyAst |-> Null, inlineDefaultGetBody |-> Null],
       [name |-> "fooSelector", kind |-> "selector", file |-> StatesSrc, line |-> 6,
        getBodyAst |-> SelectorBodyAst(body), inlineDefaultGetBody |-> Null] >>

CheckExtraction(body) ==
    [recoilDefinitions |-> CheckDefinitions(body),
     jotaiDefinitions |-> <<[name |-> "fooAtom", file |-> "/src/jotai.ts", line |-> 1]>>,
     jotaiImports |-> <<[localName |-> "fooAtomAlias", importedName |-> "fooAtom",
                         file |-> StatesSrc]>>]

CheckNames == {"fooState", "barFamily", "fooSelector"}

UsageTypes == {"reader", "setter", "initializer"}

HookOfType(type) ==
    IF type = "reader" THEN "useRecoilValue"
    ELSE IF type = "setter" THEN "useSetRecoilState"
    ELSE "set(initializer)"

ResolvedUsage(name, type, line) ==
    [atomName |-> name, localName |-> name, type |-> type, hook |-> HookOfType(type),
     file |-> ConsumerSrc, line |-> line, resolvedName |-> name,
     definitionFile |-> StatesSrc]

\* no directory argument, a directory that does not exist, a directory
TargetDirs == {[given |-> FALSE, exists |-> FALSE], [given |-> TRUE, exists |-> FALSE],
               ScannedDir}

InitCheck ==
    /\ \E body \in SelectorBodies : extraction = CheckExtraction(body)
    /\ \E us \in SeqsUpTo(CheckNames \X UsageTypes, MaxCheckUsages) :
          resolution = [i \in 1..Len(us) |-> ResolvedUsage(us[i][1], us[i][2], 10 + i)]
    /\ program = NoProgram
    /\ collected = <<>>
    /\ cursor = 1
    /\ pc = "main"
    /\ violations = <<>>
    /\ exitCode = Pending
    /\ targetDir \in TargetDirs
    /\ graph = EmptyGraph
    /\ atomName = "fooState"
    /\ coverageOptions = Undefined
    /\ queue = <<>>
    /\ visited = {}
    /\ transitive = <<>>
    /\ result = Pending
    /\ previous = Pending
    /\ setterBindings = <<>>
    /\ wrapperCache = <<>>
    /\ parsedFileCache = <<>>
    /\ analysisLog = <<>>
    /\ resolvedFactoryKeys = {}
    /\ runtimeCallsites = <<>>

\* index.ts lines 400-411: no directory argument or no such directory
UsageError ==
    /\ pc = "main"
    /\ ~targetDir.given \/ ~targetDir.exists
    /\ exitCode' = 1
    /\ pc' = "exit"
    /\ UNCHANGED <<graph, atomName, coverageOptions, cursor, program, setterBindings,
                   wrapperCache, parsedFileCache, analysisLog,
                   resolvedFactoryKeys, runtimeCallsites,
                   extraction, collected, resolution, violations, targetDir>>
    /\ UNCHANGED impactVars

\* index.ts lines 413-464: the three passes have produced the extraction and
\* the resolved usages
RunAnalysis ==
    /\ pc = "main"
    /\ targetDir.given /\ targetDir.exists
    /\ pc' = "check1"
    /\ UNCHANGED <<graph, atomName, coverageOptions>>
    /\ UNCHANGED impactVars
    /\ UNCHANGED pipelineVars
    /\ UNCHANGED stageVars

CheckStep(from, to, found) ==
    /\ pc = from
    /\ violations' = violations \o found
    /\ pc' = to
    /\ UNCHANGED <<graph, atomName, coverageOptions, cursor, program, setterBindings,
                   wrapperCache, parsedFileCache, analysisLog,
                   resolvedFactoryKeys, runtimeCallsites,
                   extraction, collected, resolution, exitCode,
                   targetDir>>
    /\ UNCHANGED impactVars

\* checks.ts line 287
RunCrossSystemBoundary ==
    CheckStep("check1", "check2", checkCrossSystemBoundary(extraction))

\* checks.ts line 288
RunOrphanedAtom ==
    CheckStep("check2", "check3", checkOrphanedAtom(extraction, resolution))

\* checks.ts lines 289-291
RunUnusedAtom ==
    CheckStep("check3", "report", checkUnusedAtom(extraction, resolution))

\* index.ts lines 469-475: the violations are printed and the process exits
Exit ==
    /\ pc = "report"
    /\ exitCode' = getExitCode(violations)
    /\ pc' = "exit"
    /\ UNCHANGED <<graph, atomName, coverageOptions, cursor, program, setterBindings,
                   wrapperCache, parsedFileCache, analysisLog,
                   resolvedFactoryKeys, runtimeCallsites,
                   extraction, collected, resolution, violations, targetDir>>
    /\ UNCHANGED impactVars

NextCheck ==
    \/ UsageError
    \/ RunAnalysis
    \/ RunCrossSystemBoundary
    \/ RunOrphanedAtom
    \/ RunUnusedAtom
    \/ Exit

SpecCheck == InitCheck /\ [][NextCheck]_vars

----------------------------------------------------------------------------
(* Properties of the check family *)

ViolationsOf(check, name) ==
    {i \in 1..Len(violations) : /\ violations[i].check = check
                                /\ violations[i].atomOrSelectorName = name}

TypesOf(name) ==
    {resolution[i].type : i \in {k \in 1..Len(resolution) :
                                    resolution[k].resolvedName = name}}

\* checkOrphanedAtom has returned
OrphanedAtomChecked ==
    \/ pc \in {"check3", "report"}
    \/ pc = "exit" /\ targetDir = ScannedDir

\* C19: once Check 2 has run, a definition has a Check 2 violation exactly
\* when it is an atom or atomFamily with at least one resolved reader and no
\* resolved usage of type "setter"; the violation is a single error, and
\* initializer usages do not prevent it
OrphanedAtomIgnoresInitializers ==
    OrphanedAtomChecked =>
       \A i \in 1..Len(extraction.recoilDefinitions) :
          LET def == extraction.recoilDefinitions[i]
              orphaned == /\ def.kind \in {"atom", "atomFamily"}
                          /\ "reader" \in TypesOf(def.name)
                          /\ "setter" \notin TypesOf(def.name)
          IN  /\ orphaned => Cardinality(ViolationsOf(2, def.name)) = 1
              /\ ~orphaned => ViolationsOf(2, def.name) = {}
              /\ \A k \in ViolationsOf(2, def.name) : violations[k].severity = "error"

\* an atom with a reader whose only write is an initializer is reported
InitializerOnlyAtomReported ==
    /\ pc = "exit"
    /\ TypesOf("fooState") = {"reader", "initializer"}
    /\ ViolationsOf(2, "fooState") # {}

ChecksReported == {violations[i].check : i \in 1..Len(violations)}

ExitCodeFollowsViolations ==
    /\ exitCode \in {0, 1}
    /\ exitCode = 1 <=> ChecksReported \cap {1, 2} # {}
    /\ \A i \in 1..Len(violations) :
          violations[i].severity = "error" <=> violations[i].check \in {1, 2}

\* C20, as stated: whenever the check command has exited, the exit code is 1
\* exactly when a Check 1 or Check 2 violation was reported, and 0 when
\* nothing or only Check 3 warnings were reported
ExitCodeOneIffError == pc = "exit" => ExitCodeFollowsViolations

\* C20, amended: the same, for the runs whose directory argument was given
\* and exists, that is, the runs that reach the checks
AnalysedRunExitCodeOneIffError ==
    (pc = "exit" /\ targetDir = ScannedDir) => ExitCodeFollowsViolations

\* a run that reports only Check 3 warnings and exits with 0
WarningsOnlyExitZero ==
    /\ pc = "exit"
    /\ targetDir = ScannedDir
    /\ ChecksReported = {3}
    /\ exitCode = 0

----------------------------------------------------------------------------
(* Further properties of analyzeAtomImpact *)

\* the files of the usages listed in a returned result
UsageSiteFiles(res) ==
    {u.file : u \in Range(res.direct.readers) \cup Range(res.direct.setters)
                    \cup Range(res.direct.initializers)}
    \cup UNION {{u.file : u \in Range(res.transitive[i].readers)
                             \cup Range(res.transitive[i].setters)} :
                   i \in DOMAIN res.transitive}

\* the non-empty definition files of the transitive entries of a result
DefinitionSiteFiles(res) ==
    {res.transitive[i].viaDefinition.file : i \in DOMAIN res.transitive} \ {""}

\* C21: totalComponents is the number of distinct files of the listed direct
\* and transitive usages, totalFiles the number of distinct files of those
\* usages and of the transitive entries' definitions; a file that is only a
\* definition location is counted in totalFiles alone
ComponentsCountUsageSitesOnly ==
    Returned =>
       /\ result.summary.totalComponents = Cardinality(UsageSiteFiles(result))
       /\ result.summary.totalFiles =
             Cardinality(UsageSiteFiles(result) \cup DefinitionSiteFiles(result))
       /\ result.summary.totalFiles - result.summary.totalComponents =
             Cardinality(DefinitionSiteFiles(result) \ UsageSiteFiles(result))

\* a result whose selectors file is a definition location only, and whose
\* component file holds several of the listed usages
DefinitionOnlyFileCounted ==
    /\ Returned
    /\ SelectorsFile \in DefinitionSiteFiles(result) \ UsageSiteFiles(result)
    /\ result.summary.totalFiles = result.summary.totalComponents + 1
    /\ result.summary.totalComponents = 2
    /\ \E i \in DOMAIN result.transitive :
          \E u \in Range(result.transitive[i].readers) :
             /\ u.file = ComponentFile
             /\ \E v \in Range(result.direct.readers) : v.file = ComponentFile

\* the names some name of `names` has among its dependents
Dependents(g, names) == UNION {Range(DependentsOf(g, n)) : n \in names}

\* the length of the shortest path of at least one step from the names of
\* `frontier` (reached in `steps - 1` steps) to `name` along the dependents
\* relation, or 0 when no path of at most ChainLen + 1 steps exists
RECURSIVE ShortestPathFrom(_, _, _, _)
ShortestPathFrom(g, frontier, name, steps) ==
    IF steps > ChainLen + 1 THEN 0
    ELSE IF name \in Dependents(g, frontier) THEN steps
    ELSE ShortestPathFrom(g, Dependents(g, frontier), name, steps + 1)

ShortestPath(g, from, name) == ShortestPathFrom(g, {from}, name, 1)

\* C24: the depth of every transitive entry is the length of the shortest
\* path from the target to the entry's name in the dependents relation, so
\* a name reachable at depths 1 and 2 is reported once, at depth 1
DepthIsShortestPath ==
    Returned =>
        \A i \in DOMAIN result.transitive :
            /\ result.transitive[i].depth =
                   ShortestPath(graph, atomName, result.transitive[i].via)
            /\ \A j \in DOMAIN result.transitive :
                   result.transitive[j].via = result.transitive[i].via => j = i

\* a diamond: an entry at depth 1 that is also a dependent of another
\* depth-1 entry, so that a path of length 2 leads to it as well
DiamondAtDepthOne ==
    /\ Returned
    /\ \E i, j \in DOMAIN result.transitive :
          /\ i # j
          /\ result.transitive[i].depth = 1
          /\ result.transitive[j].depth = 1
          /\ result.transitive[i].via \in
                 Range(DependentsOf(graph, result.transitive[j].via))
          /\ result.transitive[i].via \notin
                 Range(DependentsOf(graph, result.transitive[i].via))

\* the placeholder location of a dependent that has no definition
PlaceholderLocation == [file |-> "", line |-> 0, kind |-> "selector"]

\* C27: a dependent without an entry in the definitions map does not make
\* the call throw: its transitive entry carries the placeholder location
\* (empty file, line 0), its own dependents are traversed at the next depth,
\* and the empty file is not counted in the summary
MissingDefinitionTolerated ==
    /\ pc = "done" => result # Threw
    /\ Returned =>
          /\ \A i \in DOMAIN result.transitive :
                result.transitive[i].via \notin DOMAIN graph.definitions =>
                   /\ result.transitive[i].viaDefinition = PlaceholderLocation
                   /\ result.transitive[i].depth < maxDepth =>
                         \A n \in Range(DependentsOf(graph, result.transitive[i].via)) :
                            \E j \in DOMAIN result.transitive :
                               /\ result.transitive[j].via = n
                               /\ result.transitive[j].depth <=
                                      result.transitive[i].depth + 1
          /\ result.summary.totalFiles =
                Cardinality((UsageSiteFiles(result) \cup
                    {result.transitive[i].viaDefinition.file :
                        i \in DOMAIN result.transitive}) \ {""})

\* a returned list with a placeholder entry whose dependent follows one
\* level deeper, on a graph where no listed usage or definition adds a file
\* in its place
PlaceholderEntryReturned ==
    /\ Returned
    /\ \E i, j \in DOMAIN result.transitive :
          /\ result.transitive[i].via \notin DOMAIN graph.definitions
          /\ result.transitive[i].viaDefinition.file = ""
          /\ result.transitive[j].via \in
                 Range(DependentsOf(graph, result.transitive[i].via))
          /\ result.transitive[j].depth = result.transitive[i].depth + 1
          /\ result.transitive[j].viaDefinition.file = SelectorsFile

\* C28: the target is never the `via` of an entry of its own transitive
\* list, also when a cycle of the dependents relation passes through it
TargetNeverVia ==
    Returned =>
        \A i \in DOMAIN result.transitive : result.transitive[i].via # atomName

\* C30: every name other than the target whose shortest path from the
\* target has length 1..5 is the `via` of a transitive entry
ReachableWithinDepthListed ==
    Returned =>
        \A n \in Names \ {atomName} :
            ShortestPath(graph, atomName, n) \in 1..maxDepth =>
                n \in Vias(result.transitive)

\* a returned list holding a name at depth 5 that a second, longer path or
\* a cycle also leads to, on a graph whose chain goes on beyond depth 5
DeepNameWithCycleListed ==
    /\ Returned
    /\ \E i \in DOMAIN result.transitive : result.transitive[i].depth = maxDepth
    /\ \E n \in Names : ShortestPath(graph, atomName, n) > maxDepth
    /\ \E a, b \in Vias(result.transitive) :
          /\ a # b
          /\ b \in Range(DependentsOf(graph, a))
          /\ a \in Range(DependentsOf(graph, b))

----------------------------------------------------------------------------
(* analyzeAtomImpact called twice on the same graph, target and options *)

InitRepeat == InitTraversal \/ InitMerge

NextRepeat == NextImpact \/ CallAgain

SpecRepeat == InitRepeat /\ [][NextRepeat]_vars

\* C22: no step of analyzeAtomImpact changes the dependency graph (its maps
\* and the usage objects in them) or the coverage options, and a second call
\* with the same arguments returns a value equal to the first
AnalysisIsPure ==
    [][/\ graph' = graph
       /\ coverageOptions' = coverageOptions
       /\ atomName' = atomName
       /\ (pc' = "done" /\ previous' # Pending) => result' = previous']_vars

\* a second coverage-mode call that returned the first call's result, with a
\* fallback write and a transitive entry in it
SecondCallReturnedSame ==
    /\ pc = "done"
    /\ previous \notin {Pending, Null, Threw}
    /\ result = previous
    /\ coverageOptions # Undefined
    /\ result.transitive # <<>>
    /\ \E i \in DOMAIN result.direct.setters :
          result.direct.setters[i].writerKind = "fallback"

----------------------------------------------------------------------------
(* Program family of buildSetterBindings: a wrapper hook `useSetFoo` with a *)
(* block body made of nested helpers and return statements, a second       *)
(* wrapper `useSetBar`, and a consumer calling the wrappers at a few call  *)
(* sites.  Between two runs in one process the wrapper file may be edited. *)

BarState == Identifier("barState")

StatementKinds ==
    {"nestedSetter", "nestedOther", "bareReturn", "ownSetter", "ownTuple", "ownValue"}

\* one statement of the wrapper body, on its line
Statement(kind, line) ==
    IF kind = "nestedSetter"
    THEN \* const helper = () => { return useResetRecoilState(barState); };
         VariableDeclarator(Identifier("helper"),
             ArrowFunctionExpression(FunctionBody(<<ReturnStatement(
                 CallExpression("useResetRecoilState", BarState, line))>>)), line)
    ELSE IF kind = "nestedOther"
    THEN \* function inner() { return value; }
         FunctionDeclaration("inner", line,
             FunctionBody(<<ReturnStatement(Identifier("value"))>>))
    ELSE IF kind = "bareReturn"
    THEN \* return;
         ReturnStatement(Null)
    ELSE IF kind = "ownSetter"
    THEN \* return useSetRecoilState(fooState);
         ReturnStatement(CallExpression("useSetRecoilState", FooState, line))
    ELSE IF kind = "ownTuple"
    THEN \* return useRecoilState(fooState);
         ReturnStatement(CallExpression("useRecoilState", FooState, line))
    ELSE \* return value;
         ReturnStatement(Identifier("value"))

WrapperForms == {"declaration", "arrowBlock"}

\* the line useSetBar is declared on: that of useSetFoo (a file written on
\* one line) or a line of its own
BarLines == {3, 9}

\* `function useSetFoo() { .. }` or `const useSetFoo = () => { .. }`, line 3
BlockWrapper(form, kinds, barLine) ==
    LET body == FunctionBody([i \in 1..Len(kinds) |->
                    Statement(kinds[i], IF barLine = 3 THEN 3 ELSE 3 + i)])
    IN  IF form = "declaration"
        THEN FunctionDeclaration("useSetFoo", 3, body)
        ELSE VariableDeclarator(Identifier("useSetFoo"),
                 ArrowFunctionExpression(body), 3)

\* wrapper-hooks.ts: useSetFoo and
\* `export const useSetBar = () => useSetRecoilState(barState);`
WrapperHooksFile(form, kinds, barLine) ==
    SourceFile(RecoilHooks, <<ImportRecord("fooState", AtomsSrc)>>, <<>>,
        Program(<< BlockWrapper(form, kinds, barLine),
                   VariableDeclarator(Identifier("useSetBar"),
                       ArrowFunctionExpression(
                           CallExpression("useSetRecoilState", BarState, barLine)),
                       barLine) >>))

WrapperCallees == {"useSetFoo", "useSetBar"}

SiteNames == <<"setA", "setB", "setC", "setD", "setE", "setF">>

\* function Consumer() { const setA = useSetFoo(); const setB = ...; }
SitesAst(sites) ==
    FunctionDeclaration("Consumer", 5, FunctionBody(
        [i \in 1..Len(sites) |->
            VariableDeclarator(Identifier(SiteNames[i]),
                CallExpression(sites[i], Undefined, 10 + i), 10 + i)]))

BindingsProgram(form, kinds, barLine, sites) ==
    (AtomsSrc :> SourceFile(<<>>, <<>>, <<>>,
        Program(<<VariableDeclarator(FooState,
                      CallExpression("atom", Undefined, 1), 1)>>)))
    @@ (SelectorsSrc :> SourceFile(<<>>, <<>>, <<>>, Program(<<>>)))
    @@ (WrapperSrc :> WrapperHooksFile(form, kinds, barLine))
    @@ (IndexSrc :> SourceFile(<<>>, <<>>, IndexReExports("named") \o
            <<[type |-> "named", localName |-> "useSetBar",
               exportedName |-> "useSetBar", sourceFile |-> WrapperSrc]>>,
            Program(<<>>)))
    @@ (ConsumerSrc :> SourceFile(RecoilHooks,
        << ImportRecord("useSetFoo", IndexSrc), ImportRecord("useSetBar", IndexSrc) >>,
        <<>>, Program(<<SitesAst(sites)>>)))

InitBindings ==
    /\ \E form \in WrapperForms, kinds \in SeqsUpTo(StatementKinds, MaxStatements) :
       \E barLine \in BarLines, sites \in SeqsUpTo(WrapperCallees, MaxSites) \ {<<>>} :
          program = BindingsProgram(form, kinds, barLine, sites)
    /\ atomName = "fooState"
    /\ graph = EmptyGraph
    /\ coverageOptions = Undefined
    /\ pc = "bind"
    /\ queue = <<>>
    /\ visited = {}
    /\ transitive = <<>>
    /\ result = Pending
    /\ previous = Pending
    /\ cursor = 1
    /\ setterBindings = <<>>
    /\ wrapperCache = <<>>
    /\ parsedFileCache = <<>>
    /\ analysisLog = <<>>
    /\ resolvedFactoryKeys = {}
    /\ runtimeCallsites = <<>>
    /\ StagesIdle

\* buildSetterBindings lines 743-746 and 798: the files after the last
\* declarator are parsed and the maps are returned
ReturnBindings ==
    /\ pc = "binding"
    /\ cursor > Len(DeclaratorsOf(FileView(parsedFileCache, program), ScanOrder))
    /\ parsedFileCache' = CacheFiles(parsedFileCache, program, Range(ScanOrder))
    /\ pc' = "bound"
    /\ UNCHANGED <<graph, atomName, coverageOptions, program, cursor, setterBindings,
                   wrapperCache, analysisLog, resolvedFactoryKeys, runtimeCallsites>>
    /\ UNCHANGED impactVars
    /\ UNCHANGED stageVars

\* the wrapper file is rewritten on disk between two runs of one process
EditWrapper ==
    /\ pc = "bound"
    /\ Len(analysisLog) < MaxRuns
    /\ \E kinds \in SeqsUpTo(StatementKinds, 1) :
          /\ WrapperHooksFile("declaration", kinds, 9) # program[WrapperSrc]
          /\ program' = [program EXCEPT ![WrapperSrc] = WrapperHooksFile("declaration", kinds, 9)]
    /\ previous' = [setterBindings |-> setterBindings]
    /\ pc' = "bind"
    /\ UNCHANGED <<graph, atomName, coverageOptions, cursor, setterBindings,
                   wrapperCache, parsedFileCache, analysisLog, resolvedFactoryKeys,
                   runtimeCallsites>>
    /\ UNCHANGED <<queue, visited, transitive, result>>
    /\ UNCHANGED stageVars

NextBindings ==
    \/ StartBindings
    \/ BindDeclarator
    \/ ReturnBindings
    \/ EditWrapper

SpecBindings == InitBindings /\ [][NextBindings]_vars

----------------------------------------------------------------------------
(* Properties of the wrapper analysis *)

IsFunctionNode(node) ==
    node.type \in {"FunctionDeclaration", "FunctionExpression",
                   "ArrowFunctionExpression"}

\* the nodes of a block that belong to the function's own lexical scope:
\* nested function literals are not entered
RECURSIVE OwnScope(_)
RECURSIVE OwnScopeAll(_)
OwnScopeAll(nodes) ==
    IF nodes = <<>> THEN <<>> ELSE OwnScope(Head(nodes)) \o OwnScopeAll(Tail(nodes))

OwnScope(node) ==
    IF IsFunctionNode(node) THEN <<>> ELSE <<node>> \o OwnScopeAll(node.children)

\* the argument of the first return statement of the own scope
FirstOwnReturn(blockNode) ==
    LET returns == SelectSeq(OwnScopeAll(blockNode.children),
                       LAMBDA node : /\ node.type = "ReturnStatement"
                                     /\ node.argument # Null)
    IN  IF returns = <<>> THEN Undefined ELSE returns[1].argument

\* the definition of useSetFoo in the wrapper file
UseSetFooDefinition == findFunctionInFile(program, "useSetFoo", WrapperSrc)

\* the two wrappers of the file are declared on different lines
WrappersOnOwnLines ==
    findFunctionInFile(program, "useSetBar", WrapperSrc).line # UseSetFooDefinition.line

\* a run of buildSetterBindings has analysed useSetFoo
UseSetFooAnalysed ==
    /\ pc \in {"binding", "bound"}
    /\ WrappersOnOwnLines
    /\ analysisLog # <<>>
    /\ <<WrapperSrc, 3>> \in Range(analysisLog[Len(analysisLog)])

\* C23: when a block-bodied wrapper was analysed, the binding memoized for it
\* is the one its first own-scope return expression gives; a return inside
\* a nested function literal is never the one selected
OwnScopeReturnIsAnalysed ==
    UseSetFooAnalysed =>
        LET returnExpr == FirstOwnReturn(UseSetFooDefinition.body)
            binding == IF returnExpr = Undefined THEN Undefined
                       ELSE IF returnExpr.type = "CallExpression"
                       THEN resolveDirectHookWriteBinding(returnExpr,
                                UseSetFooDefinition.hookAliases)
                       ELSE Undefined
        IN  wrapperCache[<<WrapperSrc, 3>>] =
                IF binding = Undefined THEN Null ELSE binding

\* the call sites of the consumer, as <<file, declarator>>
ConsumerSites == DeclaratorsOfFile(program, ConsumerSrc)

\* the binding an analysis of the callee's definition gives, cache aside
UncachedBinding(callee) ==
    LET functionDef == resolveCalleeToFunctionDefinition(program, callee, ConsumerSrc)
    IN  IF functionDef = Undefined THEN Undefined
        ELSE analyzeWrapperReturnExpression(functionDef)

\* C25: within one run of buildSetterBindings the return expression of a
\* wrapper is analysed at most once, whatever the number of its call sites,
\* and every call site is bound as an uncached analysis of the wrapper
\* would bind it, also when that analysis finds no binding
WrapperAnalysedOncePerRun ==
    /\ \A run \in DOMAIN analysisLog :
          \A i, j \in DOMAIN analysisLog[run] :
              i # j => analysisLog[run][i] # analysisLog[run][j]
    /\ pc = "bound" =>
          \A k \in DOMAIN ConsumerSites :
              LET declarator == ConsumerSites[k][2]
                  site == <<ConsumerSrc, declarator.id.name>>
                  binding == UncachedBinding(declarator.init.callee.name)
              IN  IF binding = Undefined THEN site \notin DOMAIN setterBindings
                  ELSE IF binding.kind = "setter"
                  THEN /\ site \in DOMAIN setterBindings
                       /\ setterBindings[site] = binding.stateId
                  ELSE site \notin DOMAIN setterBindings

\* the same for the files in which no two wrappers share a line
OwnLineWrapperAnalysedOncePerRun == WrappersOnOwnLines => WrapperAnalysedOncePerRun

\* a finished run with three call sites: two of useSetFoo, for which the one
\* analysis found no binding, and one of useSetBar, which was bound
SharedWrapperAnalysedOnce ==
    /\ pc = "bound"
    /\ WrappersOnOwnLines
    /\ Len(ConsumerSites) = 3
    /\ Cardinality({k \in DOMAIN ConsumerSites :
                       ConsumerSites[k][2].init.callee.name = "useSetFoo"}) = 2
    /\ <<WrapperSrc, 3>> \in DOMAIN wrapperCache
    /\ wrapperCache[<<WrapperSrc, 3>>] = Null
    /\ Len(analysisLog[Len(analysisLog)]) = 2
    /\ \E site \in DOMAIN setterBindings : setterBindings[site] = "barState"

\* buildSetterBindings run from scratch over the files of `prog`
RECURSIVE BindAll(_, _, _, _)
BindAll(prog, items, bindings, cache) ==
    IF items = <<>> THEN bindings
    ELSE LET file == Head(items)[1]
             declarator == Head(items)[2]
             resolved == resolveHookWriteBinding(prog, declarator.init, file,
                             getRecoilHookAliases(prog[file]), cache)
         IN  BindAll(prog, Tail(items),
                 IF resolved.binding = Undefined THEN bindings
                 ELSE bindSetterIdentifiers(declarator, resolved.binding, file,
                                            bindings),
                 resolved.cache)

FreshBindings(prog) == BindAll(prog, DeclaratorsOf(prog, ScanOrder), <<>>, <<>>)

\* C26: each run starts with an empty parsed-file cache and an empty wrapper
\* cache, so a run never reads an entry an earlier run of the process made,
\* and the bindings it returns are those of the files as they are at the
\* time of the run
CachesResetEachRun ==
    /\ (pc = "binding" /\ cursor = 1) =>
          /\ parsedFileCache = <<>>
          /\ wrapperCache = <<>>
    /\ pc \in {"binding", "bound"} =>
          \A f \in DOMAIN parsedFileCache :
              parsedFileCache[f] = parseFile(program, f)
    /\ pc = "bound" => setterBindings = FreshBindings(program)

\* a second run in the same process, after the wrapper file was edited,
\* whose bindings differ from those of the first run
SecondRunSawEdit ==
    /\ pc = "bound"
    /\ Len(analysisLog) = 2
    /\ previous # Pending
    /\ previous.setterBindings # <<>>
    /\ setterBindings # previous.setterBindings

====
